---- MODULE Spec2Model ----
(***************************************************************************)
(* A model of the request-signing core of xapi: the transaction generator  *)
(* (transaction.go) with its cache, its refresh mutex and its unlocked     *)
(* refresh writes, and the request driver (client.go, executeWithRetry).   *)
(*                                                                         *)
(* Spec        the generator under NThreads concurrent callers of          *)
(*             Generate, Refresh and ForceRefresh, one action per step     *)
(*             that reads or writes shared fields.                         *)
(* SpecDriver  the retry loop of the client, one perform at a time per     *)
(*             request slot, with the operation's outcome drawn from the   *)
(*             HTTP outcomes Client.request distinguishes.                 *)
(***************************************************************************)
EXTENDS Integers, Sequences, FiniteSets, TLC

\* ------------------------------------------------------------------ bounds
NThreads == 2
MaxTime == 1
MaxCalls == 2
MaxDeploys == 1
NPerforms == 2
MaxRequests == 2
MaxSerialCalls == 4
MaxIDs == 2

Threads == 1..NThreads
Performs == 1..NPerforms

\* ------------------------------------------------------- time and configs
\* One clock unit is five minutes. A backoff base is in milliseconds and a
\* backoff multiplier in tenths (2.0 is 20); a rate limit is in requests per
\* minute.
Hour == 60 \div 5

DefaultProductionConfig ==
    [HTMLDataCacheLifetime |-> 6 * Hour, AnimationKeyLifetime |-> 3 * Hour,
     EnableAutoRetry |-> TRUE, MaxRetryAttempts |-> 3,
     RetryBackoffBase |-> 500, RetryBackoffMultiplier |-> 20,
     ErrorThresholdForRefresh |-> 2, RateLimitRequests |-> 50]

DevelopmentConfig_OneRetry ==
    [HTMLDataCacheLifetime |-> 2, AnimationKeyLifetime |-> 3,
     EnableAutoRetry |-> TRUE, MaxRetryAttempts |-> 1,
     RetryBackoffBase |-> 200, RetryBackoffMultiplier |-> 15,
     ErrorThresholdForRefresh |-> 1, RateLimitRequests |-> 100]

DevelopmentConfig ==
    [HTMLDataCacheLifetime |-> 2, AnimationKeyLifetime |-> 3,
     EnableAutoRetry |-> TRUE, MaxRetryAttempts |-> 2,
     RetryBackoffBase |-> 200, RetryBackoffMultiplier |-> 15,
     ErrorThresholdForRefresh |-> 1, RateLimitRequests |-> 100]

UltraFreshConfig ==
    [HTMLDataCacheLifetime |-> 0, AnimationKeyLifetime |-> 0,
     EnableAutoRetry |-> FALSE, MaxRetryAttempts |-> 0,
     RetryBackoffBase |-> 0, RetryBackoffMultiplier |-> 10,
     ErrorThresholdForRefresh |-> 1, RateLimitRequests |-> 30]

\* The configurations a generator is constructed with.
GeneratorConfigs == {DevelopmentConfig, UltraFreshConfig}

\* ------------------------------------------------------------ fetched data
\* A verification key is a string over the base64 alphabet, written as the
\* sequence of its characters' alphabet positions (A = 0 ... / = 63), with
\* Pad for '='.
Pad == 63 + 1

KeyA == <<0, 16, 8, 3, 1, 0, 20, 6>>        \* "AQIDBAUG" = 1,2,3,4,5,6
KeyB == <<1, 48, 32, 9, 2, 32, 44, 13>>     \* "BwgJCgsN" = 7,8,9,10,11,13
KeyShort == <<0, 0, 0, 0>>                  \* "AAAA"     = 0,0,0

\* A homepage: whether the "ondemand.s" marker is present, the content of the
\* twitter-site-verification meta tag (<<>> when there is none) and, per
\* loading-x-anim-N frame, the integer rows of its first curve path (<<>> when
\* the frame or a valid path is missing).
NoFrames == [n \in 0..3 |-> <<>>]
FramesA == [n \in 0..3 |-> << <<10, 20, 30, 40, 50, 60, 70, 80>>, <<1, 2, 3>> >>]
FramesB == [n \in 0..3 |-> << <<5, 6, 7, 8, 9, 10, 11, 12>> >>]
\* Only loading-x-anim-0, with the path "M0 0 C1,2,3,4,5,6,7,8,9": the first
\* nine characters are dropped, the digits of the rest form one row.
FramesOnlyZero ==
    [n \in 0..3 |-> IF n = 0 THEN << <<3, 4, 5, 6, 7, 8, 9>> >> ELSE <<>>]

PageA == [marker |-> TRUE, meta |-> KeyA, frames |-> FramesA]
PageB == [marker |-> TRUE, meta |-> KeyB, frames |-> FramesB]
PageNoMarker == [marker |-> FALSE, meta |-> KeyB, frames |-> FramesB]
PageNoMeta == [marker |-> TRUE, meta |-> <<>>, frames |-> FramesB]
PageShortKey == [marker |-> TRUE, meta |-> KeyShort, frames |-> FramesB]
PageNoFrame == [marker |-> TRUE, meta |-> KeyB, frames |-> NoFrames]
PageThreeZeros == [marker |-> TRUE, meta |-> KeyShort, frames |-> FramesOnlyZero]
EmptyPage == [marker |-> FALSE, meta |-> <<>>, frames |-> NoFrames]

Homepages ==
    {PageA, PageB, PageNoMarker, PageNoMeta, PageShortKey, PageNoFrame,
     PageThreeZeros}

\* An ondemand script: the digits captured by the index pattern, in order.
ScriptA == <<4, 1, 2>>
ScriptB == <<2, 0, 3>>
ScriptNone == <<>>
Scripts == {ScriptA, ScriptB, ScriptNone}

\* The homepage with the key "AAAA" and the single frame, with the script
\* whose indices are 4, 1, 2.
ThreeZerosSite == [home |-> PageThreeZeros, ondemand |-> ScriptA]

\* What the two hosts serve together: two working sites, for each way an
\* extraction can fail a site that fails that way, and the three-zeros site.
Sites ==
    {[home |-> PageA, ondemand |-> ScriptA],
     [home |-> PageB, ondemand |-> ScriptB],
     [home |-> PageB, ondemand |-> ScriptNone],
     ThreeZerosSite}
    \cup {[home |-> p, ondemand |-> ScriptB] :
             p \in {PageNoMarker, PageNoMeta, PageShortKey, PageNoFrame}}

\* ---------------------------------------------------------- pure functions
RECURSIVE DecodeGroups(_)
DecodeGroups(s) ==
    IF s = <<>> THEN <<>>
    ELSE LET n == s[1] * 262144 + s[2] * 4096 + s[3] * 64 + s[4]
         IN  <<n \div 65536, (n \div 256) % 256, n % 256>>
                \o DecodeGroups(SubSeq(s, 5, Len(s)))

\* base64.StdEncoding.DecodeString: [ok, bytes].
DecodeString(s) ==
    LET n == Len(s)
        pads == Cardinality({i \in 1..n : s[i] = Pad})
        body == [i \in 1..n |-> IF s[i] = Pad THEN 0 ELSE s[i]]
        padsAtEnd == \A i \in 1..n : s[i] = Pad => i > n - pads
    IN  IF n % 4 # 0 \/ pads > 2 \/ ~padsAtEnd
        THEN [ok |-> FALSE, bytes |-> <<>>]
        ELSE [ok |-> TRUE,
              bytes |-> SubSeq(DecodeGroups(body), 1, (n \div 4) * 3 - pads)]

\* jsRound(float64(frameTime)/10) * 10 on a non-negative integer.
JsRoundTens(frameTime) == ((frameTime + 5) \div 10) * 10

RECURSIVE FrameTimeProduct(_, _)
FrameTimeProduct(indices, keyBytes) ==
    IF indices = <<>> THEN 1
    ELSE LET i == Head(indices)
             f == IF i < Len(keyBytes) THEN keyBytes[i + 1] % 16 ELSE 1
         IN  f * FrameTimeProduct(Tail(indices), keyBytes)

PadRow(row) == [i \in 1..15 |-> IF i <= Len(row) THEN row[i] ELSE 0]

\* animate: the key is a function of the padded frame row and the target
\* time frameTime/4096; it is written here as that pair.
animate(frameRow, frameTime) == [row |-> PadRow(frameRow), time |-> frameTime]

\* extractAnimationFrames: [ok, rows].
extractAnimationFrames_LastByte(page, keyBytes) ==
    IF Len(keyBytes) = 0 THEN [ok |-> FALSE, rows |-> <<>>]
    ELSE LET rows == page.frames[keyBytes[Len(keyBytes)] % 4]
         IN  [ok |-> rows # <<>>, rows |-> rows]

extractAnimationFrames_FifthByte(page, keyBytes) ==
    IF Len(keyBytes) <= 4 THEN [ok |-> FALSE, rows |-> <<>>]
    ELSE LET rows == page.frames[keyBytes[5] % 4]
         IN  [ok |-> rows # <<>>, rows |-> rows]

extractAnimationFrames(page, keyBytes) ==
    IF Len(keyBytes) <= 5 THEN [ok |-> FALSE, rows |-> <<>>]
    ELSE LET rows == page.frames[keyBytes[6] % 4]
         IN  [ok |-> rows # <<>>, rows |-> rows]

NoKey == [row |-> <<>>, time |-> 0]

\* A wall-clock instant relative to TwitterEpoch, (hi * 65536 + lo) seconds
\* and us microseconds after it: hi is negative before the epoch.
Epoch == [hi |-> 0, lo |-> 0, us |-> 0]

\* tg.mu with nobody in it: no writer, no goroutine blocked in Lock, no
\* read hold.
NoLock == [writer |-> 0, waiting |-> {}, readers |-> [t \in Threads |-> 0]]

\* ------------------------------------------------------------------- state
VARIABLES
    site,          \* what x.com and abs.twimg.com serve at the moment
    deploys,       \* how often the served assets have changed
    config,        \* tg.config
    now,           \* time.Now(), in clock units
    tg,            \* the TransactionGenerator's data fields and cache entries
    metrics,       \* tg.metrics
    refreshMutex,  \* tg.refreshMutex: the holder, 0 when free
    constructed,   \* NewTransactionGeneratorWithConfig returned the generator
    pc,            \* each thread's position
    op,            \* each thread's outermost call
    err,           \* each thread's error return of the refresh it is in
    used,          \* currentKeyBytes, currentAnimationKey of generateUniqueTransactionID
    result,        \* what generateUniqueTransactionID returned to Generate
    calls,         \* calls started so far
    before,        \* the material when the refresh mutex was last acquired
    refreshLog,    \* under serial calls: each refresh, its instant and outcome;
                   \* under ForceRefresh calls: each call, its thread and instant
    wall,          \* time.Now() of the ID builder, relative to TwitterEpoch
    ids,           \* the transaction IDs built so far, with their inputs
    mu,            \* tg.mu: its write holder, its waiting writers, its read holds
    clientConfig,  \* c.config, with c.retryEnabled = c.config.EnableAutoRetry
    errorStreak,   \* c.errorStreak
    totalRequests, \* c.totalRequests
    clientMetrics, \* c.metrics
    req            \* each executeWithRetry call: its locals and position

gvars == <<site, deploys, config, now, tg, metrics, refreshMutex, constructed, pc, op, err,
           used, result, calls, before, refreshLog, wall, ids, mu>>

dvars == <<clientConfig, errorStreak, totalRequests, clientMetrics, req>>

vars == <<gvars, dvars>>

\* The ClientMetrics of a new client.
NoClientMetrics == [TotalRequests |-> 0, SuccessfulRequests |-> 0, FailedRequests |-> 0]

\* The locals of executeWithRetry before a call: attempt, maxAttempts and
\* lastError are the code's; the other fields record what the call did.
IdleRequest ==
    [pc |-> "idle", attempt |-> 0, maxAttempts |-> 0, lastError |-> "nil",
     cancelled |-> FALSE, ret |-> "none",
     named |-> 0,          \* the attempt count the returned error names
     execs |-> 0,          \* operation(ctx) calls
     rateWaits |-> 0,      \* rateLimiter.Wait calls that returned a permit
     frCalls |-> 0,        \* ForceRefreshTransactionID calls
     waited |-> 0,         \* backoff timers that fired, summed, in ms
     only429 |-> TRUE,     \* every failure so far was a 429
     refreshed |-> FALSE,  \* ForceRefreshTransactionID since the last failure
     startStreak |-> 0,    \* c.errorStreak at entry
     interfered |-> FALSE] \* another call recorded a result meanwhile

\* A CacheEntry, nil until initialize builds it. Its Data, a copy of the
\* material that nothing reads, is left out.
NilEntry == [nil |-> TRUE, CreatedAt |-> 0, ExpiresAt |-> 0]

NoUse == [keyBytes |-> <<>>, animationKey |-> NoKey]

\* The signing material of the generator.
Material(g) ==
    [homePageHTML |-> g.homePageHTML, onDemandFileHTML |-> g.onDemandFileHTML,
     key |-> g.key, keyBytes |-> g.keyBytes, rowIndex |-> g.rowIndex,
     keyBytesIndices |-> g.keyBytesIndices, animationKey |-> g.animationKey]

NoMaterial ==
    [homePageHTML |-> EmptyPage, onDemandFileHTML |-> <<>>, key |-> <<>>,
     keyBytes |-> <<>>, rowIndex |-> 0, keyBytesIndices |-> <<>>,
     animationKey |-> NoKey]

InitGenerator ==
    /\ site \in Sites
    /\ deploys = 0
    /\ config \in GeneratorConfigs
    /\ now = 0
    /\ tg = [homePageHTML |-> EmptyPage, onDemandFileHTML |-> <<>>,
             key |-> <<>>, keyBytes |-> <<>>, rowIndex |-> 0,
             keyBytesIndices |-> <<>>, animationKey |-> NoKey,
             htmlDataCache |-> NilEntry,
             animationCache |-> NilEntry,
             verificationCache |-> NilEntry,
             initialized |-> FALSE, lastRefresh |-> 0]
    /\ metrics = [TotalGenerations |-> 0, HTMLDataFetches |-> 0,
                  RefreshAttempts |-> 0, RefreshFailures |-> 0,
                  LastRefreshTime |-> 0]
    /\ refreshMutex = 0
    /\ constructed = FALSE
    \* thread 1 is inside NewTransactionGeneratorWithConfig, about to initialize
    /\ pc = [t \in Threads |-> IF t = 1 THEN "r_lock" ELSE "idle"]
    /\ op = [t \in Threads |-> IF t = 1 THEN "initialize" ELSE "none"]
    /\ err = [t \in Threads |-> FALSE]
    /\ used = [t \in Threads |-> NoUse]
    /\ result = [t \in Threads |-> "none"]
    /\ calls = 0
    /\ before = NoMaterial
    /\ refreshLog = {}
    /\ wall = Epoch
    /\ ids = <<>>
    /\ mu = NoLock
    \* no client is built on this generator
    /\ clientConfig = DefaultProductionConfig
    /\ errorStreak = 0
    /\ totalRequests = 0
    /\ clientMetrics = NoClientMetrics
    /\ req = [p \in Performs |-> IdleRequest]

\* needsRefresh, evaluated on the generator at one instant.
needsRefresh_AtExpiry(g, time) ==
    \/ ~g.initialized
    \/ ~g.htmlDataCache.nil /\ time >= g.htmlDataCache.ExpiresAt
    \/ ~g.animationCache.nil /\ time >= g.animationCache.ExpiresAt
    \/ ~g.verificationCache.nil /\ time >= g.verificationCache.ExpiresAt

needsRefresh(g, time) ==
    \/ ~g.initialized
    \/ ~g.htmlDataCache.nil /\ time > g.htmlDataCache.ExpiresAt
    \/ ~g.animationCache.nil /\ time > g.animationCache.ExpiresAt
    \/ ~g.verificationCache.nil /\ time > g.verificationCache.ExpiresAt

InRefresh(t) ==
    pc[t] \in {"f_home", "f_ondemand", "x_indices", "x_key", "x_fill",
               "x_anim", "u_caches", "r_stamp", "r_unlock"}

\* --------------------------------------------------------- generator calls
Start(t, name, first) ==
    /\ constructed
    /\ pc[t] = "idle"
    /\ calls < MaxCalls
    /\ calls' = calls + 1
    /\ op' = [op EXCEPT ![t] = name]
    /\ pc' = [pc EXCEPT ![t] = first]
    /\ result' = [result EXCEPT ![t] = "none"]
    /\ used' = [used EXCEPT ![t] = NoUse]
    /\ err' = [err EXCEPT ![t] = FALSE]
    /\ UNCHANGED <<dvars, refreshLog, wall, ids, mu>>
    /\ UNCHANGED <<site, deploys, config, now, tg, metrics, refreshMutex, constructed, before>>

\* Generate: if tg.needsRefresh() { tg.Refresh() }, then
\* generateUniqueTransactionID.
CallGenerate(t) ==
    Start(t, "Generate", IF needsRefresh(tg, now) THEN "r_lock" ELSE "g_unique")

CallRefresh(t) == Start(t, "Refresh", "r_lock")

CallForceRefresh(t) == Start(t, "ForceRefresh", "fr_invalidate")

\* ForceRefresh: under tg.mu, every entry's ExpiresAt = now - 1h.
Expire(e, time) == IF e.nil THEN e ELSE [e EXCEPT !.ExpiresAt = time - Hour]

Invalidate(t) ==
    /\ pc[t] = "fr_invalidate"
    /\ tg' = [tg EXCEPT !.htmlDataCache = Expire(@, now),
                        !.animationCache = Expire(@, now),
                        !.verificationCache = Expire(@, now)]
    /\ pc' = [pc EXCEPT ![t] = "r_lock"]
    /\ UNCHANGED <<dvars, refreshLog, wall, ids, mu>>
    /\ UNCHANGED <<site, deploys, config, now, metrics, refreshMutex, constructed, op, err,
                   used, result, calls, before>>

\* tg.refreshMutex.Lock() of initialize and Refresh; Refresh then counts the
\* attempt.
LockRefresh(t) ==
    /\ pc[t] = "r_lock"
    /\ refreshMutex = 0
    /\ refreshMutex' = t
    /\ metrics' = IF op[t] = "initialize" THEN metrics
                  ELSE [metrics EXCEPT !.RefreshAttempts = @ + 1]
    /\ before' = Material(tg)
    /\ err' = [err EXCEPT ![t] = FALSE]
    /\ pc' = [pc EXCEPT ![t] = "f_home"]
    /\ UNCHANGED <<dvars, refreshLog, wall, ids, mu>>
    /\ UNCHANGED <<site, deploys, config, now, tg, constructed, op, used, result, calls>>

\* An error return out of fetchTwitterData or extractAlgorithmData: Refresh
\* counts the failure; the deferred Unlock follows.
Failed(t) ==
    /\ err' = [err EXCEPT ![t] = TRUE]
    /\ pc' = [pc EXCEPT ![t] = "r_unlock"]

CountFailure(t, m) ==
    IF op[t] = "initialize" THEN m ELSE [m EXCEPT !.RefreshFailures = @ + 1]

\* fetchTwitterData, first half: GET https://x.com, store the page, look for
\* the ondemand marker.
FetchHomepage(t) ==
    /\ pc[t] = "f_home"
    /\ \E netOK \in BOOLEAN :
         LET resp == site.home IN
         IF ~netOK
         THEN /\ Failed(t)
              /\ metrics' = CountFailure(t, metrics)
              /\ tg' = tg
         ELSE /\ tg' = [tg EXCEPT !.homePageHTML = resp]
              /\ IF resp.marker
                 THEN /\ metrics' = [metrics EXCEPT !.HTMLDataFetches = @ + 1]
                      /\ pc' = [pc EXCEPT ![t] = "f_ondemand"]
                      /\ err' = err
                 ELSE /\ metrics' = CountFailure(t,
                            [metrics EXCEPT !.HTMLDataFetches = @ + 1])
                      /\ Failed(t)
    /\ UNCHANGED <<dvars, refreshLog, wall, ids, mu>>
    /\ UNCHANGED <<site, deploys, config, now, refreshMutex, constructed, op, used, result,
                   calls, before>>

\* fetchTwitterData, second half: GET the ondemand file and store it.
FetchOndemand(t) ==
    /\ pc[t] = "f_ondemand"
    /\ \E netOK \in BOOLEAN :
         LET resp == site.ondemand IN
         IF ~netOK
         THEN /\ Failed(t)
              /\ metrics' = CountFailure(t, metrics)
              /\ tg' = tg
         ELSE /\ tg' = [tg EXCEPT !.onDemandFileHTML = resp]
              /\ pc' = [pc EXCEPT ![t] = "x_indices"]
              /\ UNCHANGED <<err, metrics>>
    /\ UNCHANGED <<dvars, refreshLog, wall, ids, mu>>
    /\ UNCHANGED <<site, deploys, config, now, refreshMutex, constructed, op, used, result,
                   calls, before>>

\* extractIndices
ExtractIndices(t) ==
    /\ pc[t] = "x_indices"
    /\ IF tg.onDemandFileHTML = <<>>
       THEN /\ Failed(t)
            /\ metrics' = CountFailure(t, metrics)
            /\ tg' = tg
       ELSE /\ tg' = [tg EXCEPT !.rowIndex = Head(tg.onDemandFileHTML),
                                !.keyBytesIndices = Tail(tg.onDemandFileHTML)]
            /\ pc' = [pc EXCEPT ![t] = "x_key"]
            /\ UNCHANGED <<err, metrics>>
    /\ UNCHANGED <<dvars, refreshLog, wall, ids, mu>>
    /\ UNCHANGED <<site, deploys, config, now, refreshMutex, constructed, op, used, result,
                   calls, before>>

\* extractKey up to tg.keyBytes = make([]int, len(decoded)): the key is
\* stored before it is decoded, and the new slice is zero until it is filled.
ExtractKey(t) ==
    /\ pc[t] = "x_key"
    /\ LET key == tg.homePageHTML.meta
           decoded == DecodeString(key)
       IN  IF key = <<>>
           THEN /\ Failed(t)
                /\ metrics' = CountFailure(t, metrics)
                /\ tg' = tg
           ELSE IF ~decoded.ok
           THEN /\ Failed(t)
                /\ metrics' = CountFailure(t, metrics)
                /\ tg' = [tg EXCEPT !.key = key]
           ELSE /\ tg' = [tg EXCEPT !.key = key,
                              !.keyBytes = [i \in 1..Len(decoded.bytes) |-> 0]]
                /\ pc' = [pc EXCEPT ![t] = "x_fill"]
                /\ UNCHANGED <<err, metrics>>
    /\ UNCHANGED <<dvars, refreshLog, wall, ids, mu>>
    /\ UNCHANGED <<site, deploys, config, now, refreshMutex, constructed, op, used, result,
                   calls, before>>

\* extractKey, the loop that fills tg.keyBytes.
FillKeyBytes(t) ==
    /\ pc[t] = "x_fill"
    /\ tg' = [tg EXCEPT !.keyBytes = DecodeString(tg.key).bytes]
    /\ pc' = [pc EXCEPT ![t] = "x_anim"]
    /\ UNCHANGED <<dvars, refreshLog, wall, ids, mu>>
    /\ UNCHANGED <<site, deploys, config, now, metrics, refreshMutex, constructed, op, err,
                   used, result, calls, before>>

generateAnimationKey_FallbackLast(g) ==
    LET frames == extractAnimationFrames(g.homePageHTML, g.keyBytes)
        n == Len(g.keyBytes)
        actualRowIndex == IF g.rowIndex >= n THEN n - 1 ELSE g.rowIndex
        rowIndex == g.keyBytes[actualRowIndex + 1] % 16
        frameTime == JsRoundTens(FrameTimeProduct(g.keyBytesIndices, g.keyBytes))
        frameRow == IF rowIndex < Len(frames.rows) THEN frames.rows[rowIndex + 1]
                    ELSE frames.rows[Len(frames.rows)]
    IN  IF ~frames.ok THEN [ok |-> FALSE, key |-> NoKey]
        ELSE [ok |-> TRUE, key |-> animate(frameRow, frameTime)]

\* generateAnimationKey on the stored homepage, key bytes and indices:
\* [ok, key].
generateAnimationKey(g) ==
    LET frames == extractAnimationFrames(g.homePageHTML, g.keyBytes)
        n == Len(g.keyBytes)
        actualRowIndex == IF g.rowIndex >= n THEN n - 1 ELSE g.rowIndex
        rowIndex == g.keyBytes[actualRowIndex + 1] % 16
        frameTime == JsRoundTens(FrameTimeProduct(g.keyBytesIndices, g.keyBytes))
        frameRow == IF rowIndex < Len(frames.rows) THEN frames.rows[rowIndex + 1]
                    ELSE frames.rows[1]
    IN  IF ~frames.ok THEN [ok |-> FALSE, key |-> NoKey]
        ELSE [ok |-> TRUE, key |-> animate(frameRow, frameTime)]

GenerateAnimationKey(t) ==
    /\ pc[t] = "x_anim"
    /\ LET r == generateAnimationKey(tg)
       IN  IF ~r.ok
           THEN /\ Failed(t)
                /\ metrics' = CountFailure(t, metrics)
                /\ tg' = tg
           ELSE /\ tg' = [tg EXCEPT !.animationKey = r.key]
                /\ pc' = [pc EXCEPT ![t] = "u_caches"]
                /\ UNCHANGED <<err, metrics>>
    /\ UNCHANGED <<dvars, refreshLog, wall, ids, mu>>
    /\ UNCHANGED <<site, deploys, config, now, refreshMutex, constructed, op,
                   used, result, calls, before>>

Entry(time, ttl) == [nil |-> FALSE, CreatedAt |-> time, ExpiresAt |-> time + ttl]

\* The three entries as initialize and updateCachesWithFreshData build them.
FreshCaches(g, time) ==
    [g EXCEPT !.htmlDataCache = Entry(time, config.HTMLDataCacheLifetime),
              !.animationCache = Entry(time, config.AnimationKeyLifetime),
              !.verificationCache = Entry(time, config.HTMLDataCacheLifetime)]

\* updateCachesWithFreshData in Refresh; in initialize the entries, the
\* readiness flag and lastRefresh.
UpdateCaches(t) ==
    /\ pc[t] = "u_caches"
    /\ IF op[t] = "initialize"
       THEN /\ tg' = [FreshCaches(tg, now) EXCEPT !.initialized = TRUE,
                                                  !.lastRefresh = now]
            /\ metrics' = [metrics EXCEPT !.LastRefreshTime = now]
            /\ pc' = [pc EXCEPT ![t] = "r_unlock"]
       ELSE /\ tg' = FreshCaches(tg, now)
            /\ metrics' = metrics
            /\ pc' = [pc EXCEPT ![t] = "r_stamp"]
    /\ UNCHANGED <<dvars, refreshLog, wall, ids, mu>>
    /\ UNCHANGED <<site, deploys, config, now, refreshMutex, constructed, op, err, used,
                   result, calls, before>>

\* Refresh: under tg.mu, lastRefresh = time.Now().
StampRefresh(t) ==
    /\ pc[t] = "r_stamp"
    /\ tg' = [tg EXCEPT !.lastRefresh = now]
    /\ metrics' = [metrics EXCEPT !.LastRefreshTime = now]
    /\ pc' = [pc EXCEPT ![t] = "r_unlock"]
    /\ UNCHANGED <<dvars, refreshLog, wall, ids, mu>>
    /\ UNCHANGED <<site, deploys, config, now, refreshMutex, constructed, op, err, used,
                   result, calls, before>>

\* UnlockRefresh with the Unlock missing on the error returns.
UnlockRefresh_KeptOnError(t) ==
    /\ pc[t] = "r_unlock"
    /\ refreshMutex' = IF err[t] THEN refreshMutex ELSE 0
    /\ pc' = [pc EXCEPT ![t] = IF op[t] = "Generate" THEN "g_unique" ELSE "idle"]
    /\ op' = [op EXCEPT ![t] = IF op[t] = "Generate" THEN @ ELSE "none"]
    /\ err' = [err EXCEPT ![t] = FALSE]
    /\ constructed' = IF op[t] = "initialize" THEN ~err[t] ELSE constructed
    /\ before' = NoMaterial
    /\ UNCHANGED <<dvars, refreshLog, wall, ids, mu>>
    /\ UNCHANGED <<site, deploys, config, now, tg, metrics, used, result, calls>>

\* UnlockRefresh with the constructor returning the generator on an error too.
UnlockRefresh_ReturnsOnError(t) ==
    /\ pc[t] = "r_unlock"
    /\ refreshMutex' = 0
    /\ pc' = [pc EXCEPT ![t] = IF op[t] = "Generate" THEN "g_unique" ELSE "idle"]
    /\ op' = [op EXCEPT ![t] = IF op[t] = "Generate" THEN @ ELSE "none"]
    /\ err' = [err EXCEPT ![t] = FALSE]
    /\ constructed' = IF op[t] = "initialize" THEN TRUE ELSE constructed
    /\ before' = NoMaterial
    /\ UNCHANGED <<dvars, refreshLog, wall, ids, mu>>
    /\ UNCHANGED <<site, deploys, config, now, tg, metrics, used, result, calls>>

\* The deferred tg.refreshMutex.Unlock() and the return: to Generate, which
\* drops the error, to the caller of Refresh or ForceRefresh, or out of the
\* constructor, which returns the generator only without an error.
UnlockRefresh(t) ==
    /\ pc[t] = "r_unlock"
    /\ refreshMutex' = 0
    /\ pc' = [pc EXCEPT ![t] = IF op[t] = "Generate" THEN "g_unique" ELSE "idle"]
    /\ op' = [op EXCEPT ![t] = IF op[t] = "Generate" THEN @ ELSE "none"]
    /\ err' = [err EXCEPT ![t] = FALSE]
    /\ constructed' = IF op[t] = "initialize" THEN ~err[t] ELSE constructed
    /\ before' = NoMaterial
    /\ UNCHANGED <<dvars, refreshLog, wall, ids, mu>>
    /\ UNCHANGED <<site, deploys, config, now, tg, metrics, used, result, calls>>

\* generateUniqueTransactionID: the animation key and the key bytes are read
\* together under tg.mu.RLock; rand.Read may fail.
GenerateUnique(t) ==
    /\ pc[t] = "g_unique"
    /\ used' = [used EXCEPT ![t] = [keyBytes |-> tg.keyBytes,
                                    animationKey |-> tg.animationKey]]
    /\ \E randOK \in BOOLEAN :
         result' = [result EXCEPT ![t] = IF randOK THEN "id" ELSE "err"]
    /\ pc' = [pc EXCEPT ![t] = "g_done"]
    /\ UNCHANGED <<dvars, refreshLog, wall, ids, mu>>
    /\ UNCHANGED <<site, deploys, config, now, tg, metrics, refreshMutex,
                   constructed, op, err, calls, before>>

\* Generate's deferred updateGenerationTime and incrementTotalGenerations,
\* and its return.
FinishGenerate(t) ==
    /\ pc[t] = "g_done"
    /\ metrics' = [metrics EXCEPT !.TotalGenerations = @ + 1]
    /\ pc' = [pc EXCEPT ![t] = "idle"]
    /\ op' = [op EXCEPT ![t] = "none"]
    /\ used' = [used EXCEPT ![t] = NoUse]
    /\ result' = [result EXCEPT ![t] = "none"]
    /\ UNCHANGED <<dvars, refreshLog, wall, ids, mu>>
    /\ UNCHANGED <<site, deploys, config, now, tg, refreshMutex, constructed,
                   err, calls, before>>

\* The served homepage and ondemand file change.
Deploy ==
    /\ deploys < MaxDeploys
    /\ deploys' = deploys + 1
    /\ site' \in Sites \ {site}
    /\ UNCHANGED <<dvars, refreshLog, wall, ids, mu>>
    /\ UNCHANGED <<config, now, tg, metrics, refreshMutex, constructed, pc, op,
                   err, used, result, calls, before>>

\* The clock advances.
Tick ==
    /\ now < MaxTime
    /\ now' = now + 1
    /\ UNCHANGED <<dvars, refreshLog, wall, ids, mu>>
    /\ UNCHANGED <<site, deploys, config, tg, metrics, refreshMutex, constructed, pc, op, err,
                   used, result, calls, before>>

NextGenerator ==
    \/ \E t \in Threads : CallGenerate(t)
    \/ \E t \in Threads : CallRefresh(t)
    \/ \E t \in Threads : CallForceRefresh(t)
    \/ \E t \in Threads : Invalidate(t)
    \/ \E t \in Threads : LockRefresh(t)
    \/ \E t \in Threads : FetchHomepage(t)
    \/ \E t \in Threads : FetchOndemand(t)
    \/ \E t \in Threads : ExtractIndices(t)
    \/ \E t \in Threads : ExtractKey(t)
    \/ \E t \in Threads : FillKeyBytes(t)
    \/ \E t \in Threads : GenerateAnimationKey(t)
    \/ \E t \in Threads : UpdateCaches(t)
    \/ \E t \in Threads : StampRefresh(t)
    \/ \E t \in Threads : UnlockRefresh(t)
    \/ \E t \in Threads : GenerateUnique(t)
    \/ \E t \in Threads : FinishGenerate(t)
    \/ Tick
    \/ Deploy

\* ----------------------------------------------------------- request driver
\* Configurations a caller hands to NewClient: the production preset with a
\* 100 ms base (the preset itself differs from it in the base only), the two
\* other presets, one that sets MaxRetryAttempts but leaves EnableAutoRetry
\* off, and the documented custom configuration.
BackoffConfig ==
    [DefaultProductionConfig EXCEPT !.RetryBackoffBase = 100]

RetryOffConfig ==
    [DefaultProductionConfig EXCEPT !.EnableAutoRetry = FALSE,
                                    !.ErrorThresholdForRefresh = 1]

\* The custom configuration of the package documentation: a ProductionConfig
\* literal that sets HTMLDataCacheLifetime to 12 h, EnableDebugLogging and
\* MaxRetryAttempts to 5; the other fields hold Go's zero values.
DocExampleConfig ==
    [HTMLDataCacheLifetime |-> 12 * Hour, AnimationKeyLifetime |-> 0,
     EnableAutoRetry |-> FALSE, MaxRetryAttempts |-> 5,
     RetryBackoffBase |-> 0, RetryBackoffMultiplier |-> 0,
     ErrorThresholdForRefresh |-> 0, RateLimitRequests |-> 0]

ClientConfigs ==
    {BackoffConfig, DevelopmentConfig, UltraFreshConfig, RetryOffConfig,
     DocExampleConfig}

\* What the hosts serve while the client runs: a working site, one whose
\* homepage lost the ondemand marker, and one that does not answer.
ClientSites ==
    {[home |-> PageB, ondemand |-> ScriptB, up |-> TRUE],
     [home |-> PageNoMarker, ondemand |-> ScriptB, up |-> TRUE],
     [home |-> PageB, ondemand |-> ScriptB, up |-> FALSE]}

\* What operation(ctx) returns once it holds a rate-limit permit: nil, or the
\* error of Client.request for 401/403, for 429, for another status or a
\* failed http.Do, or of setHeaders when Generate fails.
Outcomes == {"ok", "auth", "ratelimited", "api", "crypto"}

RECURSIVE Pow(_, _)
Pow(b, e) == IF e = 0 THEN 1 ELSE b * Pow(b, e - 1)

\* maxAttempts of executeWithRetry.
MaxAttempts_IgnoresRetryEnabled(cfg) == cfg.MaxRetryAttempts + 1

MaxAttempts(cfg) ==
    IF cfg.EnableAutoRetry THEN cfg.MaxRetryAttempts + 1 ELSE 1

\* backoffDuration after failed attempt number attempt, in ms:
\* time.Duration(float64(RetryBackoffBase) * math.Pow(multiplier, attempt-1)).
Backoff_ExponentAttempt(cfg, attempt) ==
    (cfg.RetryBackoffBase * Pow(cfg.RetryBackoffMultiplier, attempt))
        \div Pow(10, attempt)

Backoff(cfg, attempt) ==
    (cfg.RetryBackoffBase * Pow(cfg.RetryBackoffMultiplier, attempt - 1))
        \div Pow(10, attempt - 1)

shouldRefreshDueToErrors_Above(streak, cfg) ==
    streak > cfg.ErrorThresholdForRefresh

shouldRefreshDueToErrors(streak, cfg) ==
    streak >= cfg.ErrorThresholdForRefresh

\* Refresh run at one instant from Lock to Unlock with nobody else in the
\* generator: [ok, tg, metrics]. The fields are stored as the steps go, so a failed run
\* leaves what it stored.
RefreshRun(g, m, s, time) ==
    LET m0 == [m EXCEPT !.RefreshAttempts = @ + 1]
        fail(gx, mx) ==
            [ok |-> FALSE, tg |-> gx,
             metrics |-> [mx EXCEPT !.RefreshFailures = @ + 1]]
        g1 == [g EXCEPT !.homePageHTML = s.home]
        m1 == [m0 EXCEPT !.HTMLDataFetches = @ + 1]
        g2 == [g1 EXCEPT !.onDemandFileHTML = s.ondemand]
        g3 == [g2 EXCEPT !.rowIndex = Head(s.ondemand),
                         !.keyBytesIndices = Tail(s.ondemand)]
        key == s.home.meta
        decoded == DecodeString(key)
        g4 == [g3 EXCEPT !.key = key, !.keyBytes = decoded.bytes]
        r == generateAnimationKey(g4)
        g5 == [g4 EXCEPT !.animationKey = r.key]
    IN  IF ~s.up THEN fail(g, m0)
        ELSE IF ~s.home.marker THEN fail(g1, m1)
        ELSE IF s.ondemand = <<>> THEN fail(g2, m1)
        ELSE IF key = <<>> THEN fail(g3, m1)
        ELSE IF ~decoded.ok THEN fail([g3 EXCEPT !.key = key], m1)
        ELSE IF ~r.ok THEN fail(g4, m1)
        ELSE [ok |-> TRUE,
              tg |-> [FreshCaches(g5, time) EXCEPT !.lastRefresh = time],
              metrics |-> [m1 EXCEPT !.LastRefreshTime = time]]

\* NewClient(cfg): the generator is built by NewTransactionGenerator(), that
\* is with DefaultProductionConfig whatever cfg says, and has initialized.
InitDriver ==
    /\ site \in ClientSites
    /\ deploys = 0
    /\ config = DefaultProductionConfig
    /\ now = 0
    /\ LET g0 == [homePageHTML |-> EmptyPage, onDemandFileHTML |-> <<>>,
                  key |-> <<>>, keyBytes |-> <<>>, rowIndex |-> 0,
                  keyBytesIndices |-> <<>>, animationKey |-> NoKey,
                  htmlDataCache |-> NilEntry,
                  animationCache |-> NilEntry,
                  verificationCache |-> NilEntry,
                  initialized |-> FALSE, lastRefresh |-> 0]
           m0 == [TotalGenerations |-> 0, HTMLDataFetches |-> 0,
                  RefreshAttempts |-> 0, RefreshFailures |-> 0,
                  LastRefreshTime |-> 0]
           run == RefreshRun(g0, m0, [home |-> PageA, ondemand |-> ScriptA,
                                      up |-> TRUE], now)
       IN  /\ tg = [run.tg EXCEPT !.initialized = TRUE]
           /\ metrics = [run.metrics EXCEPT !.RefreshAttempts = 0]
    /\ refreshMutex = 0
    /\ constructed = TRUE
    /\ pc = [t \in Threads |-> "idle"]
    /\ op = [t \in Threads |-> "none"]
    /\ err = [t \in Threads |-> FALSE]
    /\ used = [t \in Threads |-> NoUse]
    /\ result = [t \in Threads |-> "none"]
    /\ calls = 0
    /\ before = NoMaterial
    /\ refreshLog = {}
    /\ wall = Epoch
    /\ ids = <<>>
    /\ mu = NoLock
    /\ clientConfig \in ClientConfigs
    /\ errorStreak = 0
    /\ totalRequests = 0
    /\ clientMetrics = NoClientMetrics
    /\ req = [p \in Performs |-> IdleRequest]

\* The generator fields the client's calls leave alone.
gfixed == <<site, deploys, config, now, refreshMutex, constructed, pc, op, err,
            used, result, calls, before, refreshLog, wall, ids, mu>>

\* Another call's recordSuccess or recordError lands while a call is under way.
Interfere(r, p) ==
    [q \in Performs |->
        IF q # p /\ r[q].pc \notin {"idle", "done"}
        THEN [r[q] EXCEPT !.interfered = TRUE] ELSE r[q]]

\* executeWithRetry up to the loop: c.totalRequests++ under c.mu, maxAttempts.
StartPerform(p) ==
    /\ req[p].pc = "idle"
    /\ totalRequests < MaxRequests
    /\ totalRequests' = totalRequests + 1
    /\ req' = [req EXCEPT ![p] =
                 [IdleRequest EXCEPT
                    !.pc = IF MaxAttempts(clientConfig) >= 1 THEN "attempt" ELSE "done",
                    !.ret = IF MaxAttempts(clientConfig) >= 1 THEN "none" ELSE "failed",
                    !.named = IF MaxAttempts(clientConfig) >= 1 THEN 0
                              ELSE MaxAttempts(clientConfig),
                    !.attempt = 1,
                    !.maxAttempts = MaxAttempts(clientConfig),
                    !.startStreak = errorStreak]]
    /\ UNCHANGED <<clientConfig, errorStreak, clientMetrics>>
    /\ UNCHANGED gvars

\* ctx is cancelled while the call is under way.
Cancel(p) ==
    /\ req[p].pc \in {"attempt", "backoff", "refresh"}
    /\ ~req[p].cancelled
    /\ req' = [req EXCEPT ![p].cancelled = TRUE]
    /\ UNCHANGED <<clientConfig, errorStreak, totalRequests, clientMetrics>>
    /\ UNCHANGED gvars

RecordFailure_StaleStreak(p, kind, ran) ==
    /\ errorStreak' = req[p].startStreak + 1
    /\ clientMetrics' = [clientMetrics EXCEPT !.FailedRequests = @ + 1]
    /\ LET last == req[p].attempt >= req[p].maxAttempts \/ req[p].cancelled
       IN  req' = [Interfere(req, p) EXCEPT
                     ![p].lastError = kind,
                     ![p].execs = @ + 1,
                     ![p].rateWaits = IF ran THEN @ + 1 ELSE @,
                     ![p].only429 = @ /\ kind = "ratelimited",
                     ![p].refreshed = FALSE,
                     ![p].pc = IF last THEN "done" ELSE "backoff",
                     ![p].ret = IF last THEN "failed" ELSE "none",
                     ![p].named = IF last THEN req[p].maxAttempts ELSE @]

\* The failure branch of the loop body: lastError = err, recordError, and the
\* break on the last attempt or a cancelled ctx, which leads to the wrapped
\* "request failed after maxAttempts attempts" error.
RecordFailure(p, kind, ran) ==
    /\ errorStreak' = errorStreak + 1
    /\ clientMetrics' = [clientMetrics EXCEPT !.FailedRequests = @ + 1]
    /\ LET last == req[p].attempt >= req[p].maxAttempts \/ req[p].cancelled
       IN  req' = [Interfere(req, p) EXCEPT
                     ![p].lastError = kind,
                     ![p].execs = @ + 1,
                     ![p].rateWaits = IF ran THEN @ + 1 ELSE @,
                     ![p].only429 = @ /\ kind = "ratelimited",
                     ![p].refreshed = FALSE,
                     ![p].pc = IF last THEN "done" ELSE "backoff",
                     ![p].ret = IF last THEN "failed" ELSE "none",
                     ![p].named = IF last THEN req[p].maxAttempts ELSE @]

\* One pass of the loop body: operation(ctx), that is rateLimiter.Wait,
\* setHeaders with Generate (which refreshes first when an entry is expired
\* and drops the refresh error), the HTTP call; then recordSuccess and the
\* return, or the failure branch. The operation ends in one of outcomes.
AttemptOn(p, outcomes) ==
    /\ req[p].pc = "attempt"
    /\ IF req[p].cancelled
       THEN \* rateLimiter.Wait(ctx) returns the context's error
            /\ RecordFailure(p, "ctx", FALSE)
            /\ UNCHANGED <<tg, metrics>>
       ELSE /\ LET run == RefreshRun(tg, metrics, site, now)
                    stale == needsRefresh(tg, now)
                IN  /\ tg' = IF stale THEN run.tg ELSE tg
                    /\ metrics' = [(IF stale THEN run.metrics ELSE metrics)
                                     EXCEPT !.TotalGenerations = @ + 1]
            /\ \E outcome \in outcomes :
                 IF outcome = "ok"
                 THEN /\ errorStreak' = 0
                      /\ clientMetrics' =
                           [clientMetrics EXCEPT !.SuccessfulRequests = @ + 1]
                      /\ req' = [Interfere(req, p) EXCEPT
                                   ![p].execs = @ + 1,
                                   ![p].rateWaits = @ + 1,
                                   ![p].pc = "done",
                                   ![p].ret = "ok"]
                 ELSE RecordFailure(p, outcome, TRUE)
    /\ UNCHANGED <<clientConfig, totalRequests>>
    /\ UNCHANGED gfixed

Attempt(p) == AttemptOn(p, Outcomes)

\* The backoff timer fires: shouldRefreshDueToErrors decides between the
\* refresh and the next attempt.
BackoffElapsed(p) ==
    /\ req[p].pc = "backoff"
    /\ req' = [req EXCEPT
                 ![p].waited = @ + Backoff(clientConfig, req[p].attempt),
                 ![p].pc = IF shouldRefreshDueToErrors(errorStreak, clientConfig)
                           THEN "refresh" ELSE "attempt",
                 ![p].attempt = IF shouldRefreshDueToErrors(errorStreak, clientConfig)
                                THEN @ ELSE @ + 1]
    /\ UNCHANGED <<clientConfig, errorStreak, totalRequests, clientMetrics>>
    /\ UNCHANGED gvars

\* case <-ctx.Done() of the backoff select: return nil, ctx.Err().
BackoffCancelled(p) ==
    /\ req[p].pc = "backoff"
    /\ req[p].cancelled
    /\ req' = [req EXCEPT ![p].pc = "done", ![p].ret = "ctx"]
    /\ UNCHANGED <<clientConfig, errorStreak, totalRequests, clientMetrics>>
    /\ UNCHANGED gvars

\* c.txnGen.ForceRefreshTransactionID(): the entries expire, Refresh runs, its
\* error is dropped; the loop goes on to the next attempt.
ForceRefreshTransactionID(p) ==
    /\ req[p].pc = "refresh"
    /\ LET expired == [tg EXCEPT !.htmlDataCache = Expire(@, now),
                                  !.animationCache = Expire(@, now),
                                  !.verificationCache = Expire(@, now)]
           run == RefreshRun(expired, metrics, site, now)
       IN  /\ tg' = run.tg
           /\ metrics' = run.metrics
    /\ req' = [req EXCEPT ![p].frCalls = @ + 1,
                          ![p].refreshed = TRUE,
                          ![p].attempt = @ + 1,
                          ![p].pc = "attempt"]
    /\ UNCHANGED <<clientConfig, errorStreak, totalRequests, clientMetrics>>
    /\ UNCHANGED gfixed

\* The return: the deferred updateLatencyMetrics touches only the average
\* latency.
Finish(p) ==
    /\ req[p].pc = "done"
    /\ req' = [req EXCEPT ![p] = IdleRequest]
    /\ UNCHANGED <<clientConfig, errorStreak, totalRequests, clientMetrics>>
    /\ UNCHANGED gvars

NextDriver ==
    \/ \E p \in Performs : StartPerform(p)
    \/ \E p \in Performs : Attempt(p)
    \/ \E p \in Performs : BackoffElapsed(p)
    \/ \E p \in Performs : BackoffCancelled(p)
    \/ \E p \in Performs : ForceRefreshTransactionID(p)
    \/ \E p \in Performs : Cancel(p)
    \/ \E p \in Performs : Finish(p)

SpecDriver == InitDriver /\ [][NextDriver]_vars

\* ------------------------------------------------------------ serial calls
\* One caller that calls Generate again and again, each call some time after
\* the one before: a whole call is one step. The generators are one without
\* caching and one whose three entries live for an hour.
HourConfig ==
    [DefaultProductionConfig EXCEPT !.HTMLDataCacheLifetime = Hour,
                                    !.AnimationKeyLifetime = Hour]

SerialConfigs == {UltraFreshConfig, HourConfig}

\* The time between two calls: the next clock tick, an hour, an hour and a
\* tick.
Gaps == {1, Hour, Hour + 1}

\* The generator as its constructor returns it at instant 0.
InitSerial ==
    /\ site \in ClientSites
    /\ deploys = 0
    /\ config \in SerialConfigs
    /\ now = 0
    /\ LET g0 == [homePageHTML |-> EmptyPage, onDemandFileHTML |-> <<>>,
                  key |-> <<>>, keyBytes |-> <<>>, rowIndex |-> 0,
                  keyBytesIndices |-> <<>>, animationKey |-> NoKey,
                  htmlDataCache |-> NilEntry,
                  animationCache |-> NilEntry,
                  verificationCache |-> NilEntry,
                  initialized |-> FALSE, lastRefresh |-> 0]
           m0 == [TotalGenerations |-> 0, HTMLDataFetches |-> 0,
                  RefreshAttempts |-> 0, RefreshFailures |-> 0,
                  LastRefreshTime |-> 0]
           run == RefreshRun(g0, m0, [home |-> PageA, ondemand |-> ScriptA,
                                      up |-> TRUE], 0)
       IN  /\ tg = [run.tg EXCEPT !.initialized = TRUE]
           /\ metrics = [run.metrics EXCEPT !.RefreshAttempts = 0]
    /\ refreshMutex = 0
    /\ constructed = TRUE
    /\ pc = [t \in Threads |-> "idle"]
    /\ op = [t \in Threads |-> "none"]
    /\ err = [t \in Threads |-> FALSE]
    /\ used = [t \in Threads |-> NoUse]
    /\ result = [t \in Threads |-> "none"]
    /\ calls = 0
    /\ before = NoMaterial
    /\ refreshLog = {}
    /\ wall = Epoch
    /\ ids = <<>>
    /\ mu = NoLock
    /\ clientConfig = DefaultProductionConfig
    /\ errorStreak = 0
    /\ totalRequests = 0
    /\ clientMetrics = NoClientMetrics
    /\ req = [p \in Performs |-> IdleRequest]

\* Generate, gap clock units after the call before it: needsRefresh, Refresh
\* when it says so (the error is dropped), generateUniqueTransactionID, the
\* deferred incrementTotalGenerations.
SerialGenerate(gap) ==
    /\ calls < MaxSerialCalls
    /\ calls' = calls + 1
    /\ now' = now + gap
    /\ LET stale == needsRefresh(tg, now')
           run == RefreshRun(tg, metrics, site, now')
       IN  /\ tg' = IF stale THEN run.tg ELSE tg
           /\ metrics' = [(IF stale THEN run.metrics ELSE metrics)
                            EXCEPT !.TotalGenerations = @ + 1]
           /\ refreshLog' = IF stale
                            THEN refreshLog \cup {[at |-> now', ok |-> run.ok]}
                            ELSE refreshLog
    /\ UNCHANGED <<site, deploys, config, refreshMutex, constructed, pc, op, err,
                   used, result, before>>
    /\ UNCHANGED <<dvars, wall, ids, mu>>

\* The hosts come back or go away between two calls.
SerialDeploy ==
    /\ deploys < MaxDeploys
    /\ deploys' = deploys + 1
    /\ site' \in ClientSites \ {site}
    /\ UNCHANGED <<config, now, tg, metrics, refreshMutex, constructed, pc, op, err,
                   used, result, calls, before, refreshLog>>
    /\ UNCHANGED <<dvars, wall, ids, mu>>

NextSerial ==
    \/ \E gap \in Gaps : SerialGenerate(gap)
    \/ SerialDeploy

SpecSerial == InitSerial /\ [][NextSerial]_vars

\* ------------------------------------------------ keys of every length
\* A generator fed homepages whose verification keys decode to three to nine
\* bytes, with sixth bytes across the byte range.
SixthBytes == {0, 1, 2, 3, 4, 5, 62, 127, 254, 255}

\* The eight characters of a six-byte key whose first five bytes are 0, 0, 0,
\* 1, 2 and whose sixth byte is b.
KeyOfSixth(b) == <<0, 0, 0, 0, 0, 16, 8 + b \div 64, b % 64>>

FrameKeys ==
    {KeyShort,                              \* "AAAA"         three bytes
     <<0, 0, 0, 0, 0, 16, Pad, Pad>>,       \* "AAAAAQ=="     four bytes
     <<0, 0, 0, 0, 0, 16, 8, Pad>>}         \* "AAAAAQI="     five bytes
    \cup {KeyOfSixth(b) : b \in SixthBytes}
    \cup {KeyOfSixth(b) \o <<1, 48, 32, 9>> : b \in {3, 4}}   \* nine bytes

\* Frame N's only row starts with N + 1.
FramesNumbered == [n \in 0..3 |-> << <<n + 1, 6, 7, 8, 9, 10, 11, 12>> >>]

FrameSites ==
    {[home |-> [marker |-> TRUE, meta |-> k, frames |-> f], ondemand |-> ScriptB] :
        k \in FrameKeys, f \in {FramesNumbered, FramesOnlyZero}}

\* NewTransactionGenerator() about to initialize on one of these sites.
InitFrames ==
    /\ site \in FrameSites
    /\ deploys = 0
    /\ config = DefaultProductionConfig
    /\ now = 0
    /\ tg = [homePageHTML |-> EmptyPage, onDemandFileHTML |-> <<>>,
             key |-> <<>>, keyBytes |-> <<>>, rowIndex |-> 0,
             keyBytesIndices |-> <<>>, animationKey |-> NoKey,
             htmlDataCache |-> NilEntry,
             animationCache |-> NilEntry,
             verificationCache |-> NilEntry,
             initialized |-> FALSE, lastRefresh |-> 0]
    /\ metrics = [TotalGenerations |-> 0, HTMLDataFetches |-> 0,
                  RefreshAttempts |-> 0, RefreshFailures |-> 0,
                  LastRefreshTime |-> 0]
    /\ refreshMutex = 0
    /\ constructed = FALSE
    /\ pc = [t \in Threads |-> IF t = 1 THEN "r_lock" ELSE "idle"]
    /\ op = [t \in Threads |-> IF t = 1 THEN "initialize" ELSE "none"]
    /\ err = [t \in Threads |-> FALSE]
    /\ used = [t \in Threads |-> NoUse]
    /\ result = [t \in Threads |-> "none"]
    /\ calls = 0
    /\ before = NoMaterial
    /\ refreshLog = {}
    /\ wall = Epoch
    /\ ids = <<>>
    /\ mu = NoLock
    /\ clientConfig = DefaultProductionConfig
    /\ errorStreak = 0
    /\ totalRequests = 0
    /\ clientMetrics = NoClientMetrics
    /\ req = [p \in Performs |-> IdleRequest]

\* The homepage changes to another of these.
FramesDeploy ==
    /\ deploys < MaxDeploys
    /\ deploys' = deploys + 1
    /\ site' \in FrameSites \ {site}
    /\ UNCHANGED <<dvars, refreshLog, wall, ids, mu>>
    /\ UNCHANGED <<config, now, tg, metrics, refreshMutex, constructed, pc, op,
                   err, used, result, calls, before>>

\* One caller: the constructor, then Refresh calls.
NextFrames ==
    \/ CallRefresh(1)
    \/ LockRefresh(1)
    \/ FetchHomepage(1)
    \/ FetchOndemand(1)
    \/ ExtractIndices(1)
    \/ ExtractKey(1)
    \/ FillKeyBytes(1)
    \/ GenerateAnimationKey(1)
    \/ UpdateCaches(1)
    \/ StampRefresh(1)
    \/ UnlockRefresh(1)
    \/ FramesDeploy

SpecFrames == InitFrames /\ [][NextFrames]_vars

\* ------------------------------------------------------- the ID builder
\* b ^ randomBytes[0] on two bytes.
RECURSIVE BitXor(_, _)
BitXor(a, b) ==
    IF a = 0 THEN b
    ELSE IF b = 0 THEN a
    ELSE 2 * BitXor(a \div 2, b \div 2) + ((a + b) % 2)

\* base64.StdEncoding.EncodeToString: three bytes to four characters, the
\* last group padded with '='.
RECURSIVE EncodeToString(_)
EncodeToString(b) ==
    IF b = <<>> THEN <<>>
    ELSE IF Len(b) = 1
    THEN <<b[1] \div 4, (b[1] % 4) * 16, Pad, Pad>>
    ELSE IF Len(b) = 2
    THEN <<b[1] \div 4, (b[1] % 4) * 16 + b[2] \div 16, (b[2] % 16) * 4, Pad>>
    ELSE <<b[1] \div 4, (b[1] % 4) * 16 + b[2] \div 16,
           (b[2] % 16) * 4 + b[3] \div 64, b[3] % 64>>
            \o EncodeToString(SubSeq(b, 4, Len(b)))

RECURSIVE trimBase64Padding(_)
trimBase64Padding(s) ==
    IF Len(s) > 0 /\ s[Len(s)] = Pad
    THEN trimBase64Padding(SubSeq(s, 1, Len(s) - 1))
    ELSE s

\* timeNow := int64((nowMicro - epochMicro) / 1000000), as [hi, lo] with
\* timeNow = hi * 65536 + lo: Go's division rounds toward zero, so before the
\* epoch a started second counts as the one after it.
TimeNow(w) ==
    IF w.hi < 0 /\ w.us > 0
    THEN IF w.lo = 65535 THEN [hi |-> w.hi + 1, lo |-> 0]
         ELSE [hi |-> w.hi, lo |-> w.lo + 1]
    ELSE [hi |-> w.hi, lo |-> w.lo]

\* timeNowBytes[i] = byte((timeNow >> (i * 8)) & 0xFF), i = 0..3.
TimeNowBytes_BigEndian(t) ==
    <<(t.hi \div 256) % 256, t.hi % 256, t.lo \div 256, t.lo % 256>>

TimeNowBytes_LowHalf(t) == <<t.lo % 256, t.lo \div 256, 0, 0>>

TimeNowBytes(t) ==
    <<t.lo % 256, t.lo \div 256, t.hi % 256, (t.hi \div 256) % 256>>

\* The hash string "method!path!timeNow" + DefaultKeyword + animationKey, as
\* a number that differs when a part differs, and sha256.Sum256 of it as 32
\* bytes that depend on that number.
HashString(method, path, t, key) ==
    method + 2 * path + 4 * (t.lo % 4) + 16 * (t.hi % 4) + 64 * key.time
        + 4096 * Len(key.row)

Sum256(h) == [i \in 1..32 |-> (h * 31 + i * 17) % 256]

AdditionalRandomNumber == 3

\* generateUniqueTransactionID from the values it read: [id, timeNow, hash].
TransactionID(keyBytes, animationKey, w, method, path, r) ==
    LET timeNow == TimeNow(w)
        hash == Sum256(HashString(method, path, timeNow, animationKey))
        bytesArr == [i \in 1..Len(keyBytes) |-> keyBytes[i] % 256]
                       \o TimeNowBytes(timeNow)
                       \o SubSeq(hash, 1, 16)
                       \o <<AdditionalRandomNumber % 256>>
        masked == <<r>> \o [i \in 1..Len(bytesArr) |-> BitXor(bytesArr[i], r)]
    IN  [id |-> trimBase64Padding(EncodeToString(masked)),
         timeNow |-> timeNow, hash |-> hash]

\* The random bytes tried, the instants of the wall clock, and the keys.
RandomBytes == {0, 170, 255}
Instants ==
    {[hi |-> 0 - 1, lo |-> 65535, us |-> 0],        \* one second before the epoch
     [hi |-> 0 - 1, lo |-> 65535, us |-> 999999],   \* one microsecond before it
     Epoch,
     [hi |-> 0, lo |-> 255, us |-> 999999],
     [hi |-> 0, lo |-> 65535, us |-> 0],
     [hi |-> 255, lo |-> 256, us |-> 0],
     [hi |-> 65535, lo |-> 65535, us |-> 999999],   \* 2^32 - 1 seconds after it
     [hi |-> 65536, lo |-> 0, us |-> 0]}            \* 2^32 seconds after it
KeyFF == <<63, 63, 63, 63, 63, 63, 63, 63, 0, 8, Pad, Pad>>   \* six 255s, then 0
IDSites ==
    {[home |-> [marker |-> TRUE, meta |-> k, frames |-> FramesA],
      ondemand |-> ScriptA, up |-> TRUE] : k \in {KeyA, KeyFF}}

\* a <= b on instants.
NotAfter(a, b) ==
    \/ a.hi < b.hi
    \/ a.hi = b.hi /\ a.lo < b.lo
    \/ a.hi = b.hi /\ a.lo = b.lo /\ a.us <= b.us

\* The struct that NewTransactionGeneratorWithConfig allocates.
NewGenerator ==
    [homePageHTML |-> EmptyPage, onDemandFileHTML |-> <<>>,
     key |-> <<>>, keyBytes |-> <<>>, rowIndex |-> 0,
     keyBytesIndices |-> <<>>, animationKey |-> NoKey,
     htmlDataCache |-> NilEntry,
     animationCache |-> NilEntry,
     verificationCache |-> NilEntry,
     initialized |-> FALSE, lastRefresh |-> 0]

NewMetrics ==
    [TotalGenerations |-> 0, HTMLDataFetches |-> 0,
     RefreshAttempts |-> 0, RefreshFailures |-> 0,
     LastRefreshTime |-> 0]

\* A generator that has initialized on one of the sites, at some instant.
InitID ==
    /\ site \in IDSites
    /\ deploys = 0
    /\ config = DefaultProductionConfig
    /\ now = 0
    /\ LET run == RefreshRun(NewGenerator, NewMetrics, site, now)
       IN  /\ tg = [run.tg EXCEPT !.initialized = TRUE]
           /\ metrics = [run.metrics EXCEPT !.RefreshAttempts = 0]
    /\ refreshMutex = 0
    /\ constructed = TRUE
    /\ pc = [t \in Threads |-> "idle"]
    /\ op = [t \in Threads |-> "none"]
    /\ err = [t \in Threads |-> FALSE]
    /\ used = [t \in Threads |-> NoUse]
    /\ result = [t \in Threads |-> "none"]
    /\ calls = 0
    /\ before = NoMaterial
    /\ refreshLog = {}
    /\ wall \in Instants
    /\ ids = <<>>
    /\ mu = NoLock
    /\ clientConfig = DefaultProductionConfig
    /\ errorStreak = 0
    /\ totalRequests = 0
    /\ clientMetrics = NoClientMetrics
    /\ req = [p \in Performs |-> IdleRequest]

\* generateUniqueTransactionID(method, path) with the cache fresh: rand.Read
\* gives the byte r or fails.
BuildID(method, path, r, randOK) ==
    /\ Len(ids) < MaxIDs
    /\ LET x == TransactionID(tg.keyBytes, tg.animationKey, wall, method, path, r)
       IN  ids' = Append(ids,
                    IF randOK
                    THEN [failed |-> FALSE, id |-> x.id, r |-> r, at |-> wall,
                          keyBytes |-> tg.keyBytes, timeNow |-> x.timeNow,
                          hash |-> x.hash]
                    ELSE [failed |-> TRUE, id |-> <<>>, r |-> 0, at |-> wall,
                          keyBytes |-> tg.keyBytes, timeNow |-> x.timeNow,
                          hash |-> <<>>])
    /\ metrics' = [metrics EXCEPT !.TotalGenerations = @ + 1]
    /\ UNCHANGED <<site, deploys, config, now, tg, refreshMutex, constructed, pc,
                   op, err, used, result, calls, before, refreshLog, wall, mu>>
    /\ UNCHANGED dvars

\* The wall clock moves on; it does not go back.
AdvanceWall ==
    /\ wall' \in {w \in Instants : NotAfter(wall, w) /\ w # wall}
    /\ UNCHANGED <<site, deploys, config, now, tg, metrics, refreshMutex,
                   constructed, pc, op, err, used, result, calls, before,
                   refreshLog, ids, mu>>
    /\ UNCHANGED dvars

NextID ==
    \/ \E method \in 0..1, r \in RandomBytes, randOK \in BOOLEAN :
          BuildID(method, 1, r, randOK)
    \/ AdvanceWall

SpecID == InitID /\ [][NextID]_vars

\* ---------------------------------------------------------- the endpoints
\* User runs fetchUser under executeWithRetry; Tweet, Broadcast, Highlights,
\* Following, Followers, BlueVerified, UserBusiness, UsersByIDs and the
\* timeline request of tweetsPage call c.request themselves. Call 1 is a User
\* call, call 2 one of the others.
EndpointOutcomes == {"ok", "notfound", "api"}
EndpointConfigs == {BackoffConfig, DevelopmentConfig, RetryOffConfig}

InitEndpoints ==
    /\ InitDriver
    /\ clientConfig \in EndpointConfigs

\* Tweet(ctx, tweetID) and its like: one c.request (rateLimiter.Wait,
\* setHeaders with Generate, the HTTP call), the decoding of the answer, and
\* the return of the result or of the error as it is.
Tweet(p, outcome) ==
    /\ req[p].pc = "idle"
    /\ calls < MaxCalls
    /\ calls' = calls + 1
    /\ LET run == RefreshRun(tg, metrics, site, now)
           stale == needsRefresh(tg, now)
       IN  /\ tg' = IF stale THEN run.tg ELSE tg
           /\ metrics' = [(IF stale THEN run.metrics ELSE metrics)
                            EXCEPT !.TotalGenerations = @ + 1]
    /\ req' = [req EXCEPT ![p] =
                 [IdleRequest EXCEPT
                    !.pc = "done",
                    !.execs = 1,
                    !.rateWaits = 1,
                    !.startStreak = errorStreak,
                    !.lastError = IF outcome = "ok" THEN "nil" ELSE outcome,
                    !.ret = outcome]]
    /\ UNCHANGED <<clientConfig, errorStreak, totalRequests, clientMetrics>>
    /\ UNCHANGED <<site, deploys, config, now, refreshMutex, constructed, pc, op, err,
                   used, result, before, refreshLog, wall, ids, mu>>

NextEndpoints ==
    \/ StartPerform(1)
    \/ AttemptOn(1, EndpointOutcomes)
    \/ BackoffElapsed(1)
    \/ ForceRefreshTransactionID(1)
    \/ \E outcome \in EndpointOutcomes : Tweet(2, outcome)
    \/ \E p \in Performs : Finish(p)

SpecEndpoints == InitEndpoints /\ [][NextEndpoints]_vars

\* ------------------------------------------- ForceRefresh, store by store
\* ForceRefresh writes the three ExpiresAt one after the other under tg.mu;
\* updateCachesWithFreshData replaces the three entries one after the other
\* and takes no lock, so its stores can fall between those of ForceRefresh.
ForceConfigs == {DefaultProductionConfig, DevelopmentConfig}

\* A thread is between tg.mu.Lock() and tg.mu.Unlock() of ForceRefresh.
InMark(t) == pc[t] \in {"fr_anim", "fr_verif"}

InitForce ==
    /\ site = [home |-> PageA, ondemand |-> ScriptA, up |-> TRUE]
    /\ deploys = 0
    /\ config \in ForceConfigs
    /\ now = 0
    /\ LET run == RefreshRun(NewGenerator, NewMetrics, site, now)
       IN  /\ tg = [run.tg EXCEPT !.initialized = TRUE]
           /\ metrics = [run.metrics EXCEPT !.RefreshAttempts = 0]
    /\ refreshMutex = 0
    /\ constructed = TRUE
    /\ pc = [t \in Threads |-> "idle"]
    /\ op = [t \in Threads |-> "none"]
    /\ err = [t \in Threads |-> FALSE]
    /\ used = [t \in Threads |-> NoUse]
    /\ result = [t \in Threads |-> "none"]
    /\ calls = 0
    /\ before = NoMaterial
    /\ refreshLog = {}
    /\ wall = Epoch
    /\ ids = <<>>
    /\ mu = NoLock
    /\ clientConfig = DefaultProductionConfig
    /\ errorStreak = 0
    /\ totalRequests = 0
    /\ clientMetrics = NoClientMetrics
    /\ req = [p \in Performs |-> IdleRequest]

\* The call of ForceRefresh, with its instant noted.
CallForceRefreshAt(t) ==
    /\ constructed
    /\ pc[t] = "idle"
    /\ calls < MaxCalls
    /\ calls' = calls + 1
    /\ op' = [op EXCEPT ![t] = "ForceRefresh"]
    /\ pc' = [pc EXCEPT ![t] = "fr_invalidate"]
    /\ err' = [err EXCEPT ![t] = FALSE]
    /\ refreshLog' = {r \in refreshLog : r.thread # t} \cup {[thread |-> t, at |-> now]}
    /\ UNCHANGED <<site, deploys, config, now, tg, metrics, refreshMutex, constructed,
                   used, result, before, wall, ids, mu>>
    /\ UNCHANGED dvars

\* tg.mu.Lock(); tg.htmlDataCache.ExpiresAt = time.Now().Add(-1 * time.Hour)
MarkHTML(t) ==
    /\ pc[t] = "fr_invalidate"
    /\ \A u \in Threads : ~InMark(u)
    /\ tg' = [tg EXCEPT !.htmlDataCache = Expire(@, now)]
    /\ pc' = [pc EXCEPT ![t] = "fr_anim"]
    /\ UNCHANGED <<dvars, refreshLog, wall, ids, mu>>
    /\ UNCHANGED <<site, deploys, config, now, metrics, refreshMutex, constructed, op, err,
                   used, result, calls, before>>

\* tg.animationCache.ExpiresAt = time.Now().Add(-1 * time.Hour)
MarkAnimation(t) ==
    /\ pc[t] = "fr_anim"
    /\ tg' = [tg EXCEPT !.animationCache = Expire(@, now)]
    /\ pc' = [pc EXCEPT ![t] = "fr_verif"]
    /\ UNCHANGED <<dvars, refreshLog, wall, ids, mu>>
    /\ UNCHANGED <<site, deploys, config, now, metrics, refreshMutex, constructed, op, err,
                   used, result, calls, before>>

\* tg.verificationCache.ExpiresAt = time.Now().Add(-1 * time.Hour);
\* tg.mu.Unlock(); return tg.Refresh()
MarkVerification(t) ==
    /\ pc[t] = "fr_verif"
    /\ tg' = [tg EXCEPT !.verificationCache = Expire(@, now)]
    /\ pc' = [pc EXCEPT ![t] = "r_lock"]
    /\ UNCHANGED <<dvars, refreshLog, wall, ids, mu>>
    /\ UNCHANGED <<site, deploys, config, now, metrics, refreshMutex, constructed, op, err,
                   used, result, calls, before>>

\* updateCachesWithFreshData: tg.htmlDataCache = &CacheEntry{...}
UpdateHTML(t) ==
    /\ pc[t] = "u_caches"
    /\ tg' = [tg EXCEPT !.htmlDataCache = Entry(now, config.HTMLDataCacheLifetime)]
    /\ pc' = [pc EXCEPT ![t] = "u_anim"]
    /\ UNCHANGED <<dvars, refreshLog, wall, ids, mu>>
    /\ UNCHANGED <<site, deploys, config, now, metrics, refreshMutex, constructed, op, err,
                   used, result, calls, before>>

\* tg.animationCache = &CacheEntry{...}
UpdateAnimation(t) ==
    /\ pc[t] = "u_anim"
    /\ tg' = [tg EXCEPT !.animationCache = Entry(now, config.AnimationKeyLifetime)]
    /\ pc' = [pc EXCEPT ![t] = "u_verif"]
    /\ UNCHANGED <<dvars, refreshLog, wall, ids, mu>>
    /\ UNCHANGED <<site, deploys, config, now, metrics, refreshMutex, constructed, op, err,
                   used, result, calls, before>>

\* tg.verificationCache = &CacheEntry{...}; return nil
UpdateVerification(t) ==
    /\ pc[t] = "u_verif"
    /\ tg' = [tg EXCEPT !.verificationCache = Entry(now, config.HTMLDataCacheLifetime)]
    /\ pc' = [pc EXCEPT ![t] = "r_stamp"]
    /\ UNCHANGED <<dvars, refreshLog, wall, ids, mu>>
    /\ UNCHANGED <<site, deploys, config, now, metrics, refreshMutex, constructed, op, err,
                   used, result, calls, before>>

\* Refresh's tg.mu.Lock() waits for a ForceRefresh that holds tg.mu.
StampRefreshLocked(t) ==
    /\ \A u \in Threads : ~InMark(u)
    /\ StampRefresh(t)

NextForce ==
    \/ \E t \in Threads : CallRefresh(t)
    \/ \E t \in Threads : CallForceRefreshAt(t)
    \/ \E t \in Threads : MarkHTML(t)
    \/ \E t \in Threads : MarkAnimation(t)
    \/ \E t \in Threads : MarkVerification(t)
    \/ \E t \in Threads : LockRefresh(t)
    \/ \E t \in Threads : FetchHomepage(t)
    \/ \E t \in Threads : FetchOndemand(t)
    \/ \E t \in Threads : ExtractIndices(t)
    \/ \E t \in Threads : ExtractKey(t)
    \/ \E t \in Threads : FillKeyBytes(t)
    \/ \E t \in Threads : GenerateAnimationKey(t)
    \/ \E t \in Threads : UpdateHTML(t)
    \/ \E t \in Threads : UpdateAnimation(t)
    \/ \E t \in Threads : UpdateVerification(t)
    \/ \E t \in Threads : StampRefreshLocked(t)
    \/ \E t \in Threads : UnlockRefresh(t)
    \/ Tick

SpecForce == InitForce /\ [][NextForce]_vars

\* ------------------------------------------------- the locks, step by step
\* Each call is the sequence of lock operations, reads and writes its code
\* goes through; pc[t] holds what is left of it. The data are left where they
\* are: the steps are named after the statement they stand for.
needsRefreshCode == <<"mu.RLock", "read entries", "mu.RUnlock">>

\* Where a refresh ends: with nil, with the error of fetchTwitterData (first
\* or second request), or with the error of extractAlgorithmData.
RefreshOutcomes == {"nil", "home", "ondemand", "extract"}

\* fetchTwitterData and extractAlgorithmData up to the outcome.
fetchAndExtractCode(outcome) ==
    <<"httpClient.Do x.com">> \o
    IF outcome = "home" THEN <<>>
    ELSE <<"homePageHTML =", "metrics.HTMLDataFetches++", "httpClient.Do ondemand">> \o
         IF outcome = "ondemand" THEN <<>>
         ELSE <<"onDemandFileHTML =", "rowIndex, keyBytesIndices =">> \o
              IF outcome = "extract" THEN <<>>
              ELSE <<"key, keyBytes =", "animationKey =">>

cachesCode == <<"htmlDataCache =", "animationCache =", "verificationCache =">>

updateGenerationTimeCode == <<"mu.Lock", "metrics.AverageGenTime =", "mu.Unlock">>

\* initialize: the deferred updateGenerationTime runs before the deferred
\* refreshMutex.Unlock.
initializeCode(outcome) ==
    <<"refreshMutex.Lock">> \o fetchAndExtractCode(outcome) \o
    (IF outcome = "nil"
     THEN cachesCode \o <<"initialized, lastRefresh =", "metrics.LastRefreshTime =">>
     ELSE <<>>) \o
    updateGenerationTimeCode \o <<"refreshMutex.Unlock">> \o
    (IF outcome = "nil" THEN <<"return generator">> ELSE <<"return nil, err">>)

RefreshCode(outcome) ==
    <<"refreshMutex.Lock", "metrics.RefreshAttempts++">> \o
    fetchAndExtractCode(outcome) \o
    (IF outcome = "nil"
     THEN cachesCode \o
          <<"mu.Lock", "lastRefresh =", "metrics.LastRefreshTime =", "mu.Unlock">>
     ELSE <<"metrics.RefreshFailures++">>) \o
    <<"refreshMutex.Unlock">>

ForceRefreshCode_KeepsLock(outcome) ==
    <<"mu.Lock", "ExpiresAt =">> \o RefreshCode(outcome) \o <<"mu.Unlock">>

ForceRefreshCode(outcome) ==
    <<"mu.Lock", "ExpiresAt =", "mu.Unlock">> \o RefreshCode(outcome)

\* Generate: needsRefresh, Refresh when it said so, the ID with the material
\* read under RLock, then the two deferred metric updates.
GenerateCode(refresh) ==
    needsRefreshCode \o refresh \o
    <<"mu.RLock", "read animationKey, keyBytes", "mu.RUnlock", "rand.Read">> \o
    updateGenerationTimeCode \o
    <<"mu.Lock", "metrics.TotalGenerations++", "mu.Unlock">>

GetMetricsCode == <<"mu.RLock", "read metrics", "mu.RUnlock">>

\* GetStats: needsRefresh is called inside the RLock of GetStats.
GetStatsCode ==
    <<"mu.RLock", "read material, lastRefresh">> \o needsRefreshCode \o <<"mu.RUnlock">>

LockedCalls == {"Generate", "Refresh", "ForceRefresh", "GetMetrics", "IsStale", "GetStats"}

\* The ways through a call.
Paths(name) ==
    CASE name = "initialize" -> {initializeCode(o) : o \in RefreshOutcomes}
      [] name = "Generate" ->
            {GenerateCode(<<>>)} \cup {GenerateCode(RefreshCode(o)) : o \in RefreshOutcomes}
      [] name = "Refresh" -> {RefreshCode(o) : o \in RefreshOutcomes}
      [] name = "ForceRefresh" -> {ForceRefreshCode(o) : o \in RefreshOutcomes}
      [] name = "GetMetrics" -> {GetMetricsCode}
      [] name = "IsStale" -> {needsRefreshCode}
      [] name = "GetStats" -> {GetStatsCode}

LockSteps == {"refreshMutex.Lock", "refreshMutex.Unlock", "mu.RLock", "mu.RUnlock",
              "mu.Lock", "mu.Lock wait", "mu.Unlock"}

\* Thread t is inside a call.
Running(t) == pc[t] # <<>>

\* The statement thread t is at.
At(t) == IF Running(t) THEN Head(pc[t]) ELSE "none"

\* What the lock steps leave alone.
lockfixed == <<site, deploys, config, now, tg, metrics, err, used, result, calls, before,
               refreshLog, wall, ids>>

\* Thread 1 is inside NewTransactionGeneratorWithConfig, about to initialize
\* along one of its ways.
InitLocks ==
    /\ site = [home |-> PageA, ondemand |-> ScriptA, up |-> TRUE]
    /\ deploys = 0
    /\ config = DefaultProductionConfig
    /\ now = 0
    /\ tg = NewGenerator
    /\ metrics = NewMetrics
    /\ refreshMutex = 0
    /\ constructed = FALSE
    /\ \E path \in Paths("initialize") :
          pc = [t \in Threads |-> IF t = 1 THEN path ELSE <<>>]
    /\ op = [t \in Threads |-> IF t = 1 THEN "initialize" ELSE "none"]
    /\ err = [t \in Threads |-> FALSE]
    /\ used = [t \in Threads |-> NoUse]
    /\ result = [t \in Threads |-> "none"]
    /\ calls = 0
    /\ before = NoMaterial
    /\ refreshLog = {}
    /\ wall = Epoch
    /\ ids = <<>>
    /\ mu = NoLock
    /\ clientConfig = DefaultProductionConfig
    /\ errorStreak = 0
    /\ totalRequests = 0
    /\ clientMetrics = NoClientMetrics
    /\ req = [p \in Performs |-> IdleRequest]

\* A call of one of the generator's methods, along one of its ways.
Call(t, name) ==
    /\ constructed
    /\ ~Running(t)
    /\ \E path \in Paths(name) : pc' = [pc EXCEPT ![t] = path \o <<"return">>]
    /\ op' = [op EXCEPT ![t] = name]
    /\ UNCHANGED <<lockfixed, dvars, refreshMutex, constructed, mu>>

\* tg.refreshMutex.Lock()
RefreshMutexLock(t) ==
    /\ At(t) = "refreshMutex.Lock"
    /\ refreshMutex = 0
    /\ refreshMutex' = t
    /\ pc' = [pc EXCEPT ![t] = Tail(@)]
    /\ UNCHANGED <<lockfixed, dvars, constructed, op, mu>>

\* tg.refreshMutex.Unlock()
RefreshMutexUnlock(t) ==
    /\ At(t) = "refreshMutex.Unlock"
    /\ refreshMutex' = 0
    /\ pc' = [pc EXCEPT ![t] = Tail(@)]
    /\ UNCHANGED <<lockfixed, dvars, constructed, op, mu>>

\* tg.mu.RLock(): waits while a writer holds the lock or is blocked in Lock.
RLock(t) ==
    /\ At(t) = "mu.RLock"
    /\ mu.writer = 0
    /\ mu.waiting = {}
    /\ mu' = [mu EXCEPT !.readers[t] = @ + 1]
    /\ pc' = [pc EXCEPT ![t] = Tail(@)]
    /\ UNCHANGED <<lockfixed, dvars, refreshMutex, constructed, op>>

\* tg.mu.RUnlock()
RUnlock(t) ==
    /\ At(t) = "mu.RUnlock"
    /\ mu' = [mu EXCEPT !.readers[t] = @ - 1]
    /\ pc' = [pc EXCEPT ![t] = Tail(@)]
    /\ UNCHANGED <<lockfixed, dvars, refreshMutex, constructed, op>>

\* tg.mu.Lock(), first half: the writer gets in line, which keeps new readers
\* out.
LockAnnounce(t) ==
    /\ At(t) = "mu.Lock"
    /\ mu.writer = 0
    /\ mu.waiting = {}
    /\ mu' = [mu EXCEPT !.waiting = {t}]
    /\ pc' = [pc EXCEPT ![t] = <<"mu.Lock wait">> \o Tail(@)]
    /\ UNCHANGED <<lockfixed, dvars, refreshMutex, constructed, op>>

\* tg.mu.Lock(), second half: the read holds are gone and the writer is in.
LockAcquire(t) ==
    /\ At(t) = "mu.Lock wait"
    /\ \A u \in Threads : mu.readers[u] = 0
    /\ mu' = [mu EXCEPT !.writer = t, !.waiting = {}]
    /\ pc' = [pc EXCEPT ![t] = Tail(@)]
    /\ UNCHANGED <<lockfixed, dvars, refreshMutex, constructed, op>>

\* tg.mu.Unlock()
Unlock(t) ==
    /\ At(t) = "mu.Unlock"
    /\ mu' = [mu EXCEPT !.writer = 0]
    /\ pc' = [pc EXCEPT ![t] = Tail(@)]
    /\ UNCHANGED <<lockfixed, dvars, refreshMutex, constructed, op>>

\* A statement that takes no lock: a request, a read, a store.
Work(t) ==
    /\ At(t) \notin LockSteps \cup {"none", "return", "return generator", "return nil, err"}
    /\ pc' = [pc EXCEPT ![t] = Tail(@)]
    /\ UNCHANGED <<lockfixed, dvars, refreshMutex, constructed, op, mu>>

\* NewTransactionGeneratorWithConfig returns the generator.
ReturnGenerator(t) ==
    /\ At(t) = "return generator"
    /\ constructed' = TRUE
    /\ pc' = [pc EXCEPT ![t] = <<>>]
    /\ op' = [op EXCEPT ![t] = "none"]
    /\ UNCHANGED <<lockfixed, dvars, refreshMutex, mu>>

\* The call returns.
Return(t) ==
    /\ At(t) \in {"return", "return nil, err"}
    /\ pc' = [pc EXCEPT ![t] = <<>>]
    /\ op' = [op EXCEPT ![t] = "none"]
    /\ UNCHANGED <<lockfixed, dvars, refreshMutex, constructed, mu>>

NextLocks ==
    \/ \E t \in Threads, name \in LockedCalls : Call(t, name)
    \/ \E t \in Threads : RefreshMutexLock(t)
    \/ \E t \in Threads : RefreshMutexUnlock(t)
    \/ \E t \in Threads : RLock(t)
    \/ \E t \in Threads : RUnlock(t)
    \/ \E t \in Threads : LockAnnounce(t)
    \/ \E t \in Threads : LockAcquire(t)
    \/ \E t \in Threads : Unlock(t)
    \/ \E t \in Threads : Work(t)
    \/ \E t \in Threads : ReturnGenerator(t)
    \/ \E t \in Threads : Return(t)

SpecLocks == InitLocks /\ [][NextLocks]_vars

\* ------------------------------------------------- the animation engine
\* Six-byte keys 0, 0, 0, 1, 2, b; frames of three rows, of eight, three and
\* fifteen integers; scripts whose row index and indices lie inside and
\* outside the key.
AnimFrames ==
    [n \in 0..3 |-> << <<n + 1, 6, 7, 8, 9, 10, 11, 12>>,
                       <<21, 22, 23>>,
                       <<31, 32, 33, 34, 35, 36, 26, 38, 39, 40, 41, 42, 43, 44, 45>> >>]

AnimScripts == {<<0, 4, 5>>, <<4, 5, 9>>, <<5, 9, 9>>, <<9, 5, 4>>, <<4>>}

AnimSixthBytes == {1, 2, 5, 254}

AnimSites ==
    {[home |-> [marker |-> TRUE, meta |-> KeyOfSixth(b), frames |-> AnimFrames],
      ondemand |-> sc] : b \in AnimSixthBytes, sc \in AnimScripts}

\* The rotations at which the matrix is looked at, in degrees.
Angles == {0, 90, 180, 270}

\* math.Cos and math.Sin of angle * math.Pi / 180 as float64: a whole part
\* and what is left of it, in units of 1e-17 (cos of 90 degrees is 6.1e-17,
\* not 0).
Cos(angle) ==
    CASE angle = 0 -> [whole |-> 1, eps |-> 0]
      [] angle = 90 -> [whole |-> 0, eps |-> 6]
      [] angle = 180 -> [whole |-> -1, eps |-> 0]
      [] angle = 270 -> [whole |-> 0, eps |-> -18]

Sin(angle) ==
    CASE angle = 0 -> [whole |-> 0, eps |-> 0]
      [] angle = 90 -> [whole |-> 1, eps |-> 0]
      [] angle = 180 -> [whole |-> 0, eps |-> 12]
      [] angle = 270 -> [whole |-> -1, eps |-> 0]

Neg(x) == [whole |-> 0 - x.whole, eps |-> 0 - x.eps]

convertRotationToMatrix_Transposed(angle) ==
    <<Cos(angle), Neg(Sin(angle)), Sin(angle), Cos(angle)>>

\* return []float64{cos, sin, -sin, cos}
convertRotationToMatrix(angle) ==
    <<Cos(angle), Sin(angle), Neg(Sin(angle)), Cos(angle)>>

\* floatToHex on a whole number x >= 0: "0" for 0, else the hex digits of
\* the integer part, most significant first, as digit values.
RECURSIVE HexDigits(_)
HexDigits(q) == IF q = 0 THEN <<>> ELSE Append(HexDigits(q \div 16), q % 16)

floatToHex(x) == IF x = 0 THEN <<0>> ELSE HexDigits(x)

\* animate, the matrix components: math.Round(value*100)/100 (the part left
\* over is far below 0.005), the sign dropped when negative, floatToHex.
MatrixTokens(matrix) ==
    [i \in 1..4 |->
        LET rounded == matrix[i].whole
        IN  floatToHex(IF rounded < 0 THEN 0 - rounded ELSE rounded)]

InitAnim ==
    /\ site \in AnimSites
    /\ deploys = 0
    /\ config = DefaultProductionConfig
    /\ now = 0
    /\ tg = [homePageHTML |-> EmptyPage, onDemandFileHTML |-> <<>>,
             key |-> <<>>, keyBytes |-> <<>>, rowIndex |-> 0,
             keyBytesIndices |-> <<>>, animationKey |-> NoKey,
             htmlDataCache |-> NilEntry,
             animationCache |-> NilEntry,
             verificationCache |-> NilEntry,
             initialized |-> FALSE, lastRefresh |-> 0]
    /\ metrics = [TotalGenerations |-> 0, HTMLDataFetches |-> 0,
                  RefreshAttempts |-> 0, RefreshFailures |-> 0,
                  LastRefreshTime |-> 0]
    /\ refreshMutex = 0
    /\ constructed = FALSE
    /\ pc = [t \in Threads |-> IF t = 1 THEN "r_lock" ELSE "idle"]
    /\ op = [t \in Threads |-> IF t = 1 THEN "initialize" ELSE "none"]
    /\ err = [t \in Threads |-> FALSE]
    /\ used = [t \in Threads |-> NoUse]
    /\ result = [t \in Threads |-> "none"]
    /\ calls = 0
    /\ before = NoMaterial
    /\ refreshLog = {}
    /\ wall = Epoch
    /\ ids = <<>>
    /\ mu = NoLock
    /\ clientConfig = DefaultProductionConfig
    /\ errorStreak = 0
    /\ totalRequests = 0
    /\ clientMetrics = NoClientMetrics
    /\ req = [p \in Performs |-> IdleRequest]

\* generateAnimationKey with animate opened up: the key also shows the
\* rotation the interpolation arrived at, the matrix taken from it and the
\* four matrix tokens that go into the key string.
AnimateAt(t, rotation) ==
    /\ pc[t] = "x_anim"
    /\ LET r == generateAnimationKey(tg)
       IN  IF ~r.ok
           THEN /\ Failed(t)
                /\ metrics' = CountFailure(t, metrics)
                /\ tg' = tg
           ELSE /\ tg' = [tg EXCEPT !.animationKey =
                            [row |-> r.key.row, time |-> r.key.time,
                             rotation |-> rotation,
                             matrix |-> convertRotationToMatrix(rotation),
                             tokens |-> MatrixTokens(convertRotationToMatrix(rotation))]]
                /\ pc' = [pc EXCEPT ![t] = "u_caches"]
                /\ UNCHANGED <<err, metrics>>
    /\ UNCHANGED <<dvars, refreshLog, wall, ids, mu>>
    /\ UNCHANGED <<site, deploys, config, now, refreshMutex, constructed, op,
                   used, result, calls, before>>

\* The two hosts change to another of these sites.
AnimDeploy ==
    /\ deploys < MaxDeploys
    /\ deploys' = deploys + 1
    /\ site' \in AnimSites \ {site}
    /\ UNCHANGED <<dvars, refreshLog, wall, ids, mu>>
    /\ UNCHANGED <<config, now, tg, metrics, refreshMutex, constructed, pc, op,
                   err, used, result, calls, before>>

\* One caller: the constructor, then Refresh calls.
NextAnim ==
    \/ CallRefresh(1)
    \/ LockRefresh(1)
    \/ FetchHomepage(1)
    \/ FetchOndemand(1)
    \/ ExtractIndices(1)
    \/ ExtractKey(1)
    \/ FillKeyBytes(1)
    \/ \E rotation \in Angles : AnimateAt(1, rotation)
    \/ UpdateCaches(1)
    \/ StampRefresh(1)
    \/ UnlockRefresh(1)
    \/ AnimDeploy

SpecAnim == InitAnim /\ [][NextAnim]_vars

Init == InitGenerator
Next == NextGenerator
Spec == Init /\ [][Next]_vars

\* ------------------------------------------------- claims on the generator
\* The (keyBytes, animationKey) pair that a refresh leaves in the generator
\* when it runs to its end on homepage h and ondemand script j.
RefreshPair(h, j) ==
    LET d == DecodeString(h.meta)
        g == [homePageHTML |-> h, keyBytes |-> d.bytes,
              rowIndex |-> Head(j), keyBytesIndices |-> Tail(j)]
    IN  <<d.bytes, generateAnimationKey(g).key>>

RunsToEnd(h, j) ==
    /\ h.marker
    /\ j # <<>>
    /\ h.meta # <<>>
    /\ DecodeString(h.meta).ok
    /\ extractAnimationFrames(h, DecodeString(h.meta).bytes).ok

CoherentPairs ==
    {RefreshPair(h, j) : <<h, j>> \in {w \in Homepages \X Scripts : RunsToEnd(w[1], w[2])}}

Fetching(t) == pc[t] \in {"f_home", "f_ondemand"}

\* C1: when all the threads are inside Generate, they cause one refresh round
\* trip between them: none starts the homepage fetch of a refresh when
\* another caller's refresh has already served the expiry (no entry is
\* expired any more); and each Generate call ends with a result.
C1_OneRoundTripPerExpiry ==
    \A t \in Threads :
        /\ ((\A u \in Threads : op[u] = "Generate") /\ pc[t] = "f_home")
               => needsRefresh(tg, now)
        /\ pc[t] = "g_done" => result[t] \in {"id", "err"}

\* C2: the key bytes and the animation key a Generate call builds its ID from
\* are a pair that one refresh, run to its end, installs together.
C2_CoherentSnapshot ==
    \A t \in Threads :
        (pc[t] = "g_done" /\ result[t] = "id")
            => <<used[t].keyBytes, used[t].animationKey>> \in CoherentPairs

\* C3: when Refresh or ForceRefresh returns an error, the signing material is
\* what it was when the call entered its refresh section.
C3_FailedRefreshKeepsMaterial ==
    \A t \in Threads :
        (pc[t] = "r_unlock" /\ err[t] /\ op[t] # "initialize")
            => Material(tg) = before

\* C4: while a thread holds the refresh mutex and is fetching, no Generate
\* call waits for the refresh mutex.
C4_GenerateDoesNotWait ==
    \A t \in Threads, h \in Threads :
        ~(op[t] = "Generate" /\ pc[t] = "r_lock" /\ h # t
          /\ refreshMutex = h /\ Fetching(h))

\* C5: at most one thread is in the fetch/parse/install section of initialize
\* or Refresh, it is the holder of the refresh mutex, and the mutex is held
\* by nobody outside that section (every return path released it).
C5_RefreshSerialized ==
    /\ Cardinality({t \in Threads : InRefresh(t)}) <= 1
    /\ \A t \in Threads : InRefresh(t) => refreshMutex = t
    /\ refreshMutex # 0 => InRefresh(refreshMutex)

\* A refresh section is entered after an earlier refresh has failed.
C5_Witness ==
    /\ metrics.RefreshFailures >= 1
    /\ \E t \in Threads : pc[t] = "f_home" /\ refreshMutex = t

\* ---------------------------------------------------- claims on the driver
\* A call that is still running.
Active(p) == req[p].pc \in {"attempt", "backoff", "refresh"}

\* A call that returned its wrapped error without a cancelled ctx: every
\* attempt it made failed.
Exhausted(p) ==
    req[p].pc = "done" /\ req[p].ret = "failed" /\ ~req[p].cancelled

\* C6: with a ctx that is never cancelled, a call whose operation fails on
\* every attempt returns an error after exactly MaxRetryAttempts + 1
\* executions of the operation when retries are enabled and after exactly
\* one when they are not.
C6_AttemptCount ==
    \A p \in Performs :
        (req[p].pc = "done" /\ ~req[p].cancelled /\ req[p].ret # "ok") =>
            /\ req[p].ret = "failed"
            /\ req[p].execs = IF clientConfig.EnableAutoRetry
                               THEN clientConfig.MaxRetryAttempts + 1
                               ELSE 1

C6_Witness ==
    \E p \in Performs :
        /\ Exhausted(p)
        /\ clientConfig.EnableAutoRetry
        /\ clientConfig.MaxRetryAttempts = 3
        /\ req[p].execs = 4

\* C7 as stated: with ErrorThresholdForRefresh = 2 and an error streak of 0
\* at entry, a call whose attempts fail calls ForceRefresh not at all up to
\* its second attempt and its backoff, and exactly once by the start of its
\* third attempt.
C7_RefreshAfterSecondFailure_Stated ==
    \A p \in Performs :
        (clientConfig.ErrorThresholdForRefresh = 2 /\ req[p].startStreak = 0) =>
            /\ (Active(p) /\ req[p].attempt <= 2) => req[p].frCalls = 0
            /\ (req[p].pc = "attempt" /\ req[p].attempt = 3) => req[p].frCalls = 1

\* C7, amended: the same, for a call during which no other call on the client
\* records a success or a failure (the error streak is the client's, shared
\* by its concurrent calls).
C7_RefreshAfterSecondFailure ==
    \A p \in Performs :
        (/\ clientConfig.ErrorThresholdForRefresh = 2
         /\ req[p].startStreak = 0
         /\ ~req[p].interfered) =>
            /\ (Active(p) /\ req[p].attempt <= 2) => req[p].frCalls = 0
            /\ (req[p].pc = "attempt" /\ req[p].attempt = 3) => req[p].frCalls = 1

C7_Witness ==
    \E p \in Performs :
        /\ clientConfig.ErrorThresholdForRefresh = 2
        /\ req[p].startStreak = 0
        /\ ~req[p].interfered
        /\ req[p].pc = "attempt"
        /\ req[p].attempt = 3
        /\ req[p].frCalls = 1

\* C8: a call whose failures were all 429 responses has not called
\* ForceRefresh.
C8_RateLimitedNeverRefreshes ==
    \A p \in Performs :
        (req[p].execs >= 1 /\ req[p].only429) => req[p].frCalls = 0

\* C9: an attempt that follows one failed with a 401 or 403 starts only
\* after a ForceRefresh.
C9_AuthErrorRefreshes ==
    \A p \in Performs :
        (req[p].pc = "attempt" /\ req[p].attempt > 1 /\ req[p].lastError = "auth")
            => req[p].refreshed

\* The backoff waits that precede attempt k, summed:
\* base * multiplier^(i-1) for the failed attempts i = 1 .. k-1, in ms.
RECURSIVE OffsetOfAttempt(_, _)
OffsetOfAttempt(cfg, k) ==
    IF k <= 1 THEN 0
    ELSE OffsetOfAttempt(cfg, k - 1)
         + (cfg.RetryBackoffBase * Pow(cfg.RetryBackoffMultiplier, k - 2))
               \div Pow(10, k - 2)

\* C10: attempt k starts after waits of base * multiplier^(i-1) for each
\* failed attempt i < k, a call that runs out of attempts has not waited
\* after its last one, and with base 100 ms, multiplier 2 and three retries
\* the attempts start at offsets 0, 100, 300 and 700 ms of backoff.
C10_BackoffOffsets ==
    \A p \in Performs :
        /\ req[p].pc = "attempt" =>
               req[p].waited = OffsetOfAttempt(clientConfig, req[p].attempt)
        /\ Exhausted(p) =>
               req[p].waited = OffsetOfAttempt(clientConfig, req[p].maxAttempts)
        /\ (req[p].pc = "attempt" /\ clientConfig = BackoffConfig) =>
               req[p].waited = <<0, 100, 300, 700>>[req[p].attempt]
        /\ (Exhausted(p) /\ clientConfig = BackoffConfig) => req[p].waited = 700

C10_Witness ==
    \E p \in Performs :
        /\ clientConfig = BackoffConfig
        /\ Exhausted(p)
        /\ req[p].execs = 4
        /\ req[p].waited = 700

\* C11: once ctx is cancelled while a call waits in its backoff or is about
\* to refresh, the call makes no ForceRefresh call and starts no further
\* attempt: from there it only returns.
C11_CancelStopsTheLoop ==
    [][\A p \in Performs :
          (req[p].cancelled /\ req[p].pc \in {"backoff", "refresh"}) =>
              /\ req'[p].frCalls = req[p].frCalls
              /\ req'[p].pc \in {req[p].pc, "done"}]_vars

\* C12: the attempt count named in the wrapped error of a call that gave up
\* is the number of attempts the call executed, and the wrapped cause is the
\* error of an executed attempt.
C12_ErrorNamesExecutedAttempts ==
    \A p \in Performs :
        (req[p].pc = "done" /\ req[p].ret = "failed") =>
            /\ req[p].named = req[p].execs
            /\ req[p].lastError # "nil"

AsCreated(e) == ~e.nil /\ e.ExpiresAt >= e.CreatedAt

\* C14: the entries of the signing cache of a client built by NewClient(cfg)
\* live for cfg's lifetimes: expires_at - created_at is cfg's HTML lifetime for
\* the HTML and the verification entry and cfg's animation-key lifetime for
\* the animation entry.
C14_ClientCacheUsesConfig ==
    /\ AsCreated(tg.htmlDataCache) =>
          tg.htmlDataCache.ExpiresAt - tg.htmlDataCache.CreatedAt
              = clientConfig.HTMLDataCacheLifetime
    /\ AsCreated(tg.animationCache) =>
          tg.animationCache.ExpiresAt - tg.animationCache.CreatedAt
              = clientConfig.AnimationKeyLifetime
    /\ AsCreated(tg.verificationCache) =>
          tg.verificationCache.ExpiresAt - tg.verificationCache.CreatedAt
              = clientConfig.HTMLDataCacheLifetime

\* C15 as stated: under the development preset a call executes the operation
\* at most twice, and twice when every attempt fails; under the ultra_fresh
\* preset once.
C15_PresetRetries_Stated ==
    \A p \in Performs :
        /\ clientConfig = DevelopmentConfig =>
              /\ req[p].execs <= 2
              /\ Exhausted(p) => req[p].execs = 2
        /\ clientConfig = UltraFreshConfig => req[p].execs <= 1

\* C15, amended: under the development preset a failing operation is retried
\* twice (at most three attempts a call, three when every attempt fails and
\* ctx is not cancelled); under the ultra_fresh preset it is not retried.
C15_PresetRetries ==
    \A p \in Performs :
        /\ clientConfig = DevelopmentConfig =>
              /\ req[p].execs <= 3
              /\ Exhausted(p) => req[p].execs = 3
        /\ clientConfig = UltraFreshConfig =>
              /\ req[p].execs <= 1
              /\ Exhausted(p) => req[p].execs = 1

C15_Witness ==
    \E p \in Performs :
        /\ clientConfig = DevelopmentConfig
        /\ Exhausted(p)
        /\ req[p].execs = 3
        /\ req[p].waited = 200 + 300

\* C16: a client built from the documented custom configuration, which sets
\* MaxRetryAttempts = 5 and a cache lifetime and leaves the other fields
\* unset, runs with the defaults for those: retries enabled, so six attempts
\* at a failing operation, backoff base 500 ms, multiplier 2.0, error
\* threshold 2 and a rate limit above zero.
C16_UnsetFieldsTakeDefaults ==
    clientConfig = DocExampleConfig =>
        /\ clientConfig.EnableAutoRetry
        /\ clientConfig.RetryBackoffBase = 500
        /\ clientConfig.RetryBackoffMultiplier = 20
        /\ clientConfig.ErrorThresholdForRefresh = 2
        /\ clientConfig.RateLimitRequests > 0
        /\ \A p \in Performs :
              /\ Active(p) => req[p].maxAttempts = 6
              /\ Exhausted(p) => req[p].execs = 6

\* C17: on a client with the ultra_fresh configuration whose asset hosts
\* answered for the construction and fail from then on, of two calls made one
\* after the other the second does not succeed: at most one call succeeds.
C17_SecondPerformFailsOnAssets ==
    (/\ clientConfig = UltraFreshConfig
     /\ ~site.up
     /\ \A p \in Performs : ~req[p].interfered /\ ~req[p].cancelled)
        => clientMetrics.SuccessfulRequests <= 1

\* ------------------------------------------ claims on the parsed material
\* The constructor's initialize has fetched both assets of the three-zeros
\* site and has run to its return.
ThreeZerosInitialized ==
    /\ site = ThreeZerosSite
    /\ deploys = 0
    /\ op[1] = "initialize"
    /\ pc[1] = "r_unlock"
    /\ tg.homePageHTML = PageThreeZeros
    /\ tg.onDemandFileHTML = ScriptA

\* C18 as stated: on the homepage whose key decodes to 0, 0, 0 and that has
\* the single frame, with the script whose indices are 4, 1, 2, initialize
\* returns no error and has stored keyBytes = 0,0,0, rowIndex = 4 and
\* keyBytesIndices = 1,2.
C18_ThreeZerosInitializes_Stated ==
    ThreeZerosInitialized =>
        /\ ~err[1]
        /\ tg.keyBytes = <<0, 0, 0>>
        /\ tg.rowIndex = 4
        /\ tg.keyBytesIndices = <<1, 2>>

\* C18, amended: on that homepage and script the parse stores keyBytes =
\* 0,0,0, rowIndex = 4 and keyBytesIndices = 1,2, and initialize then fails
\* in the frame extraction, which wants six key bytes: the constructor
\* returns no generator.
C18_ThreeZerosInitializes ==
    /\ ThreeZerosInitialized =>
          /\ err[1]
          /\ tg.keyBytes = <<0, 0, 0>>
          /\ tg.rowIndex = 4
          /\ tg.keyBytesIndices = <<1, 2>>
          /\ tg.animationKey = NoKey
          /\ ~tg.initialized
    /\ (site = ThreeZerosSite /\ deploys = 0) => ~constructed

C18_Witness ==
    /\ ThreeZerosInitialized
    /\ err[1]
    /\ tg.keyBytes = <<0, 0, 0>>

\* C19: frame extraction on five or fewer key bytes is an error, and the
\* initialize or Refresh around it returns the error (the constructor then
\* returns no generator); on six or more key bytes the frame taken is the one
\* numbered keyBytes[5] mod 4, one of 0..3, and when the page holds it the
\* animation key is made from its row.
C19_FrameSelection ==
    [][\A t \in Threads :
          /\ pc[t] = "x_anim" /\ pc'[t] # "x_anim" =>
                LET n == Len(tg.keyBytes)
                    frameIndex == tg.keyBytes[6] % 4
                IN  /\ n <= 5 => (err'[t] /\ pc'[t] = "r_unlock")
                    /\ n >= 6 =>
                          /\ frameIndex \in 0..3
                          /\ err'[t] <=> tg.homePageHTML.frames[frameIndex] = <<>>
                          /\ (~err'[t] /\ tg.homePageHTML.frames = FramesNumbered) =>
                                tg'.animationKey.row[1] = frameIndex + 1
          /\ (pc[t] = "r_unlock" /\ err[t] /\ pc'[t] # "r_unlock") =>
                /\ pc'[t] = "idle"
                /\ op[t] = "initialize" => ~constructed']_vars

\* A Refresh has ended in the error on a five-byte key.
C19_Witness ==
    /\ pc[1] = "r_unlock"
    /\ op[1] = "Refresh"
    /\ err[1]
    /\ tg.key = tg.homePageHTML.meta
    /\ tg.keyBytes = DecodeString(tg.key).bytes
    /\ Len(tg.keyBytes) = 5
    /\ before.keyBytes # tg.keyBytes

\* ------------------------------------------------ claims on construction
\* The readiness flag is set and the three entries exist.
Ready ==
    /\ tg.initialized
    /\ ~tg.htmlDataCache.nil
    /\ ~tg.animationCache.nil
    /\ ~tg.verificationCache.nil

\* The pages, the indices, the key, the key bytes and the animation key are
\* there.
Populated ==
    /\ tg.homePageHTML # EmptyPage
    /\ tg.onDemandFileHTML # <<>>
    /\ tg.keyBytesIndices # <<>>
    /\ tg.key # <<>>
    /\ tg.keyBytes # <<>>
    /\ tg.animationKey # NoKey

\* C20: when a fetch or a parse step of initialize fails the constructor
\* returns the error and no generator, on which nothing can then be called;
\* a generator that the constructor returns has the readiness flag set and
\* its material and three cache entries populated, and from then on the flag
\* is never cleared and the entries stay.
C20_ConstructedIsReady ==
    /\ [](constructed => Ready)
    /\ [](~constructed => \A t \in Threads : op[t] \in {"none", "initialize"})
    /\ [][/\ (op[1] = "initialize" /\ op'[1] # "initialize") =>
                 /\ constructed' <=> ~err[1]
                 /\ err[1] => ~tg'.initialized
                 /\ constructed' => (Ready' /\ Populated')
          /\ tg.initialized => tg'.initialized]_vars

\* A generator was returned and a later refresh of it has failed.
C20_Witness ==
    /\ constructed
    /\ Ready
    /\ metrics.RefreshFailures >= 1

\* ------------------------------------------------- claims on the ID builder
\* Decoding of a base64 string whose trailing padding was stripped.
RawDecodeString(s) ==
    DecodeString(s \o [i \in 1..((4 - (Len(s) % 4)) % 4) |-> Pad])

\* The bytes after the first, each XORed with the first.
Unmask(b) == [i \in 1..(Len(b) - 1) |-> BitXor(b[i + 1], b[1])]

\* The seconds value that four little-endian bytes stand for, as [hi, lo].
SecondsOf(b) == [hi |-> b[4] * 256 + b[3], lo |-> b[2] * 256 + b[1]]

\* C21: a transaction ID decodes to 1 + len(keyBytes) + 4 + 16 + 1 bytes, the
\* first is the random byte, and the others XORed with the first are the key
\* bytes, the four little-endian bytes of the time, the first 16 bytes of the
\* digest and the byte 3.
C21_MaskRecoverable ==
    \A i \in 1..Len(ids) :
        ~ids[i].failed =>
            LET d == RawDecodeString(ids[i].id)
                n == Len(ids[i].keyBytes)
                u == Unmask(d.bytes)
            IN  /\ d.ok
                /\ Len(d.bytes) = 1 + n + 4 + 16 + 1
                /\ d.bytes[1] = ids[i].r
                /\ SubSeq(u, 1, n) = ids[i].keyBytes
                /\ SecondsOf(SubSeq(u, n + 1, n + 4)) =
                      [hi |-> ids[i].timeNow.hi % 65536, lo |-> ids[i].timeNow.lo]
                /\ SubSeq(u, n + 5, n + 20) = SubSeq(ids[i].hash, 1, 16)
                /\ u[n + 21] = 3

\* An ID was built with the mask 170 on the seven-byte key of 255s.
C21_Witness ==
    \E i \in 1..Len(ids) :
        /\ ~ids[i].failed
        /\ ids[i].r = 170
        /\ Len(ids[i].keyBytes) = 7
        /\ ids[i].timeNow.lo = 65535


\* The seconds value read back from the i-th ID.
DecodedSeconds(i) ==
    LET n == Len(ids[i].keyBytes)
    IN  SecondsOf(SubSeq(Unmask(RawDecodeString(ids[i].id).bytes), n + 1, n + 4))

SecondsNotAfter(a, b) == a.hi < b.hi \/ (a.hi = b.hi /\ a.lo <= b.lo)

\* The instant lies in the 2^32 seconds that start at the epoch.
InWindow(w) == w.hi >= 0 /\ w.hi < 65536

\* C22 as stated: of two IDs built one after the other under a clock that
\* does not go back, the earlier one's decoded seconds are not above the
\* later one's.
C22_SecondsNonDecreasing_Stated ==
    \A i, j \in 1..Len(ids) :
        (i < j /\ ~ids[i].failed /\ ~ids[j].failed) =>
            SecondsNotAfter(DecodedSeconds(i), DecodedSeconds(j))

\* C22, amended: this holds for two IDs built at instants from the epoch up
\* to 2^32 seconds after it, where the four bytes hold the whole seconds
\* value.
C22_SecondsNonDecreasing ==
    \A i, j \in 1..Len(ids) :
        (i < j /\ ~ids[i].failed /\ ~ids[j].failed
               /\ InWindow(ids[i].at) /\ InWindow(ids[j].at)) =>
            /\ NotAfter(ids[i].at, ids[j].at)
            /\ SecondsNotAfter(DecodedSeconds(i), DecodedSeconds(j))
            /\ DecodedSeconds(i) = [hi |-> ids[i].at.hi, lo |-> ids[i].at.lo]

\* Two IDs built inside the window, more than 65536 seconds apart.
C22_Witness ==
    /\ Len(ids) = 2
    /\ ~ids[1].failed /\ ~ids[2].failed
    /\ InWindow(ids[1].at) /\ InWindow(ids[2].at)
    /\ ids[1].at.hi < ids[2].at.hi
    /\ ids[1].at.lo > ids[2].at.lo


\* ------------------------------------------- claims on the client's metrics
\* C23: once a call has returned, the TotalRequests that GetMetrics reports is
\* above 0, and it always is the number of calls started on the client
\* (c.totalRequests, which executeWithRetry counts up on entry).
C23_TotalRequestsCounted ==
    /\ (\E p \in Performs : req[p].pc = "done") => clientMetrics.TotalRequests > 0
    /\ clientMetrics.TotalRequests = totalRequests


\* ------------------------------------------- claims on the kinds of error
\* C24: a failure of the random source is not retried: the call returns after
\* that attempt, and when it was the first attempt there has been no backoff
\* wait and no forced refresh.
C24_CryptoErrorNotRetried ==
    \A p \in Performs :
        req[p].lastError = "crypto" =>
            /\ req[p].pc = "done"
            /\ req[p].execs = 1 => (req[p].waited = 0 /\ req[p].frCalls = 0)

\* C25: when the endpoint reports a missing entity the call returns that very
\* error, not the "request failed after N attempts" error around it.
C25_NotFoundAsIs ==
    \A p \in Performs :
        (req[p].pc = "done" /\ req[p].lastError = "notfound") =>
            req[p].ret = "notfound"

\* C26: every endpoint call runs under the retry loop: with retries enabled
\* a request that goes on failing is attempted MaxRetryAttempts + 1 times,
\* every failure raises the error streak and a success resets it.
C26_EveryEndpointRetries ==
    \A p \in Performs :
        req[p].pc = "done" =>
            /\ req[p].ret # "ok" =>
                  /\ req[p].execs = MaxAttempts(clientConfig)
                  /\ errorStreak = req[p].startStreak + req[p].execs
            /\ req[p].ret = "ok" => errorStreak = 0


\* ------------------------------------------ claims on refresh and the cache
\* C27: when the caller's ctx is cancelled while the refresh of its call is
\* under way, the refresh returns with the cache entries and the material as
\* they were and with the refresh mutex free.
C27_CancelledRefreshKeepsCache ==
    [][\A p \in Performs :
          (req[p].cancelled /\ req[p].pc = "refresh" /\ req'[p].pc # "refresh") =>
              /\ tg' = tg
              /\ refreshMutex' = 0]_vars


\* C28: in every state each of the three entries has ExpiresAt = CreatedAt +
\* the lifetime configured for it, also after ForceRefresh, whether the
\* refresh it starts succeeds or fails. The configuration has no lifetime of
\* its own for the verification entry; it is built with the HTML lifetime.
C28_EntriesKeepTTL ==
    /\ ~tg.htmlDataCache.nil =>
          tg.htmlDataCache.ExpiresAt =
              tg.htmlDataCache.CreatedAt + config.HTMLDataCacheLifetime
    /\ ~tg.animationCache.nil =>
          tg.animationCache.ExpiresAt =
              tg.animationCache.CreatedAt + config.AnimationKeyLifetime
    /\ ~tg.verificationCache.nil =>
          tg.verificationCache.ExpiresAt =
              tg.verificationCache.CreatedAt + config.HTMLDataCacheLifetime


\* C29: needsRefresh is true exactly when the generator was never initialized
\* or an entry has now >= ExpiresAt, the instant now = ExpiresAt included:
\* a Generate call goes into Refresh exactly then.
C29_NeedsRefreshAtExpiry ==
    [][\A t \in Threads :
          (op[t] # "Generate" /\ op'[t] = "Generate") =>
              (pc'[t] = "r_lock" <=>
                  \/ ~tg.initialized
                  \/ ~tg.htmlDataCache.nil /\ now >= tg.htmlDataCache.ExpiresAt
                  \/ ~tg.animationCache.nil /\ now >= tg.animationCache.ExpiresAt
                  \/ ~tg.verificationCache.nil
                        /\ now >= tg.verificationCache.ExpiresAt)]_vars


\* The entry carries the mark of ForceRefresh: it ended an hour ago or more.
Marked(e) == ~e.nil /\ e.ExpiresAt <= now - Hour

\* The instant at which thread t called ForceRefresh.
CalledAt(t) == (CHOOSE r \in refreshLog : r.thread = t).at

\* C30: ForceRefresh marks the three entries expired in one atomic step: when
\* it releases tg.mu all three are marked; it then always goes into Refresh;
\* and when that Refresh succeeds, at the return the three entries have
\* CreatedAt no earlier than the call and needsRefresh is false (the
\* configured lifetimes are not zero).
C30_ForceRefreshAtomicThenFresh ==
    [][\A t \in Threads :
          /\ (pc[t] = "fr_verif" /\ pc'[t] # "fr_verif") =>
                /\ pc'[t] = "r_lock"
                /\ Marked(tg'.htmlDataCache)
                /\ Marked(tg'.animationCache)
                /\ Marked(tg'.verificationCache)
          /\ (op[t] = "ForceRefresh" /\ op'[t] # "ForceRefresh") =>
                /\ pc[t] = "r_unlock"
                /\ ~err[t] =>
                      /\ tg.htmlDataCache.CreatedAt >= CalledAt(t)
                      /\ tg.animationCache.CreatedAt >= CalledAt(t)
                      /\ tg.verificationCache.CreatedAt >= CalledAt(t)
                      /\ ~needsRefresh(tg, now)]_vars


\* Thread t cannot take its next step: the lock it asks for is not to be had.
Blocked(t) ==
    \/ At(t) = "refreshMutex.Lock" /\ refreshMutex # 0
    \/ At(t) \in {"mu.RLock", "mu.Lock"} /\ (mu.writer # 0 \/ mu.waiting # {})
    \/ At(t) = "mu.Lock wait" /\ \E u \in Threads : mu.readers[u] > 0

\* Some call is under way and every call under way is blocked: no lock is
\* released any more.
Deadlocked ==
    /\ \E t \in Threads : Running(t)
    /\ \A t \in Threads : Running(t) => Blocked(t)

\* Thread t holds tg.mu, for reading or writing, or is in line for it.
HoldsMu(t) == mu.readers[t] > 0 \/ mu.writer = t \/ t \in mu.waiting

\* C31: a thread that asks for the refresh mutex holds no part of tg.mu (the
\* refresh mutex is always the outer lock), and while the calls under way are
\* among initialize, Generate, Refresh, ForceRefresh, GetMetrics and IsStale
\* the threads are never all blocked.
C31_LockOrderNoDeadlock ==
    /\ \A t \in Threads : At(t) = "refreshMutex.Lock" => ~HoldsMu(t)
    /\ (\A t \in Threads : op[t] # "GetStats") => ~Deadlocked

\* A Generate that refreshes holds the refresh mutex and waits in tg.mu.Lock
\* for the reader of GetMetrics to leave.
C31_Witness ==
    /\ op[1] = "Generate"
    /\ refreshMutex = 1
    /\ At(1) = "mu.Lock wait"
    /\ op[2] = "GetMetrics"
    /\ At(2) = "read metrics"
    /\ mu.readers[2] = 1


\* The two requests of fetchTwitterData.
Fetches == {"httpClient.Do x.com", "httpClient.Do ondemand"}

\* The stores of a refresh into the signing material and the cache entries.
MaterialWrites ==
    {"homePageHTML =", "onDemandFileHTML =", "rowIndex, keyBytesIndices =",
     "key, keyBytes =", "animationKey =", "htmlDataCache =", "animationCache =",
     "verificationCache ="}

\* C32: in a refresh (of Refresh, ForceRefresh or Generate) the thread at a
\* request holds the refresh mutex and no part of tg.mu, and the thread at a
\* store into the signing material or a cache entry holds tg.mu for writing.
C32_WritesUnderWriteLock ==
    \A t \in Threads :
        op[t] # "initialize" =>
            /\ At(t) \in Fetches => refreshMutex = t /\ ~HoldsMu(t)
            /\ At(t) \in MaterialWrites => mu.writer = t


\* The stores into tg.metrics.
CounterWrites ==
    {"metrics.TotalGenerations++", "metrics.HTMLDataFetches++",
     "metrics.RefreshAttempts++", "metrics.RefreshFailures++",
     "metrics.LastRefreshTime ="}

\* C33: a thread at a store into a metrics counter holds the lock under which
\* GetMetrics reads, for writing, and while a GetMetrics is at its copy of the
\* metrics no thread is at such a store.
C33_CountersUnderLock ==
    \A t \in Threads :
        op[t] # "initialize" =>
            /\ At(t) \in CounterWrites => mu.writer = t
            /\ At(t) = "read metrics" =>
                  \A u \in Threads : At(u) \notin CounterWrites


\* C39: while a GetStats call is under way the threads are never all blocked,
\* so the call can always go on to its return.
C39_GetStatsReturns ==
    \A t \in Threads : op[t] = "GetStats" => ~Deadlocked


\* C34: a call of executeWithRetry whose ctx is not cancelled and that has
\* run the operation has waited for the rate-limit permit exactly once,
\* however many attempts it made.
C34_RateWaitOnce ==
    \A p \in Performs :
        (req[p].execs >= 1 /\ ~req[p].cancelled) => req[p].rateWaits = 1


\* recordSuccess and recordError together: the outcomes recorded so far.
Recorded(m) == m.SuccessfulRequests + m.FailedRequests

\* C35: with calls of executeWithRetry interleaved, c.errorStreak is the count
\* of failures recorded since the last recorded success: a recorded success
\* sets it to 0, a recorded failure adds one to it, nothing else moves it, and
\* it lies between 0 and FailedRequests; and SuccessfulRequests +
\* FailedRequests goes up by one exactly when some call has run its
\* operation once more.
C35_StreakCountsFailures ==
    /\ [](errorStreak >= 0 /\ errorStreak <= clientMetrics.FailedRequests)
    /\ [][/\ clientMetrics'.SuccessfulRequests # clientMetrics.SuccessfulRequests =>
                /\ clientMetrics'.SuccessfulRequests = clientMetrics.SuccessfulRequests + 1
                /\ clientMetrics'.FailedRequests = clientMetrics.FailedRequests
                /\ errorStreak' = 0
          /\ clientMetrics'.FailedRequests # clientMetrics.FailedRequests =>
                /\ clientMetrics'.FailedRequests = clientMetrics.FailedRequests + 1
                /\ clientMetrics'.SuccessfulRequests = clientMetrics.SuccessfulRequests
                /\ errorStreak' = errorStreak + 1
          /\ Recorded(clientMetrics') = Recorded(clientMetrics) => errorStreak' = errorStreak
          /\ (Recorded(clientMetrics') = Recorded(clientMetrics) + 1) <=>
                \E p \in Performs : req'[p].execs = req[p].execs + 1]_vars

\* Two calls under way on one client: a success of one lies between two
\* failures of the other, and the streak counts only the later failure.
C35_Witness ==
    /\ errorStreak = 1
    /\ clientMetrics.SuccessfulRequests = 1
    /\ clientMetrics.FailedRequests = 2
    /\ \E p \in Performs : req[p].interfered /\ req[p].execs = 2 /\ req[p].startStreak = 0


\* ------------------------------------------- claims on the animation key
\* The smaller of two numbers.
Min(a, b) == IF a <= b THEN a ELSE b

\* A row of fewer than 15 integers with zeros added on the right.
RightPadded(row) == row \o [i \in 1..(15 - Len(row)) |-> 0]

\* The rows extractAnimationFrames takes from the stored homepage: those of
\* the frame numbered keyBytes[5] mod 4.
FramesOf(g) == g.homePageHTML.frames[g.keyBytes[6] % 4]

\* C36: with key bytes, a row index >= 0 and a non-empty frames array, the
\* row the animation key is made from is frames[s] for s = keyBytes[min(
\* rowIndex, len(keyBytes) - 1)] mod 16 when s < len(frames), frames[0]
\* otherwise, padded on the right with zeros to 15 integers, and the frames
\* of the stored homepage stay as they were.
C36_RowSelection ==
    [][\A t \in Threads :
          (/\ pc[t] = "x_anim" /\ pc'[t] # "x_anim"
           /\ Len(tg.keyBytes) >= 6
           /\ tg.rowIndex >= 0
           /\ FramesOf(tg) # <<>>) =>
              LET n == Len(tg.keyBytes)
                  frames == FramesOf(tg)
                  s == tg.keyBytes[Min(tg.rowIndex, n - 1) + 1] % 16
                  frameRow == IF s < Len(frames) THEN frames[s + 1] ELSE frames[1]
              IN  /\ ~err'[t]
                  /\ Len(frameRow) <= 15
                  /\ tg'.animationKey.row = RightPadded(frameRow)
                  /\ tg'.homePageHTML = tg.homePageHTML]_vars

\* A key was made with the row index beyond the key (9 on six bytes), the
\* selector 1 in range, and the three-integer row padded.
C36_Witness ==
    /\ pc[1] = "u_caches"
    /\ tg.rowIndex = 9
    /\ Len(tg.keyBytes) = 6
    /\ tg.keyBytes[6] = 1
    /\ tg.animationKey.row = <<21, 22, 23, 0, 0, 0, 0, 0, 0, 0, 0, 0, 0, 0, 0>>


\* The product of keyBytes[min(i, len(keyBytes) - 1)] mod 16 over every index
\* i: an index beyond the key takes the last element.
RECURSIVE ClampedProduct(_, _)
ClampedProduct(indices, keyBytes) ==
    IF indices = <<>> THEN 1
    ELSE (keyBytes[Min(Head(indices), Len(keyBytes) - 1) + 1] % 16)
             * ClampedProduct(Tail(indices), keyBytes)

\* C37: the frame time of a key that was made is the rounded product in which
\* every index of keyBytesIndices has its factor, an index >= len(keyBytes)
\* through the last element of keyBytes.
C37_IndicesClamped ==
    [][\A t \in Threads :
          (pc[t] = "x_anim" /\ pc'[t] = "u_caches") =>
              tg'.animationKey.time =
                  JsRoundTens(ClampedProduct(tg.keyBytesIndices, tg.keyBytes))]_vars


\* The sign of a number: -1, 0 or 1.
Sign(x) == IF x < 0 THEN 0 - 1 ELSE IF x > 0 THEN 1 ELSE 0

\* The sign a matrix token shows: no token is negative.
TokenSign(token) == IF token = <<0>> THEN 0 ELSE 1

\* C38 as stated: for the rotation at which a key was made, the matrix is
\* [cos, sin, -sin, cos] and the third and fourth tokens emitted into the key
\* carry the signs of -sin and cos.
C38_MatrixOrdering_Stated ==
    [][\A t \in Threads :
          (pc[t] = "x_anim" /\ pc'[t] = "u_caches") =>
              LET key == tg'.animationKey
                  theta == key.rotation
              IN  /\ key.matrix = <<Cos(theta), Sin(theta), Neg(Sin(theta)), Cos(theta)>>
                  /\ TokenSign(key.tokens[3]) = Sign(Neg(Sin(theta)).whole)
                  /\ TokenSign(key.tokens[4]) = Sign(Cos(theta).whole)]_vars

\* C38: for the rotation at which a key was made, the matrix is
\* [cos, sin, -sin, cos] in that order, and the tokens emitted into the key
\* are the magnitudes of its entries: the third and fourth show |sin| and
\* |cos| and are those the ordering [cos, sin, sin, cos] would emit.
C38_MatrixOrdering ==
    [][\A t \in Threads :
          (pc[t] = "x_anim" /\ pc'[t] = "u_caches") =>
              LET key == tg'.animationKey
                  theta == key.rotation
              IN  /\ key.matrix = <<Cos(theta), Sin(theta), Neg(Sin(theta)), Cos(theta)>>
                  /\ key.matrix[3].whole = 0 - key.matrix[2].whole
                  /\ TokenSign(key.tokens[3]) = Sign(Sin(theta).whole) * Sign(Sin(theta).whole)
                  /\ TokenSign(key.tokens[4]) = Sign(Cos(theta).whole) * Sign(Cos(theta).whole)
                  /\ key.tokens =
                        MatrixTokens(<<Cos(theta), Sin(theta), Sin(theta), Cos(theta)>>)]_vars

\* A key was made at 90 degrees: the third matrix entry is -1, the third
\* token is "1".
C38_Witness ==
    /\ pc[1] = "u_caches"
    /\ tg.animationKey.rotation = 90
    /\ tg.animationKey.matrix[3].whole = 0 - 1
    /\ tg.animationKey.tokens = << <<0>>, <<1>>, <<1>>, <<0>> >>
====
